---- MODULE Spec2Model ----
(***************************************************************************)
(* Cue sequencer (baby/intro.rs) and physics solver (baby/level.rs) of the *)
(* platformer prototype.                                                   *)
(*                                                                         *)
(* Numbers.  The program computes in f32.  Volumes, interpolation          *)
(* fractions, positions, forces and the physics budget are modelled as     *)
(* extended rationals: a record [k, n, d] that is a finite fraction n/d in *)
(* lowest terms, or one of the IEEE specials -inf, +inf, NaN (a division   *)
(* by zero produces them exactly as the hardware does).  Rounding is not   *)
(* modelled.  The sequencer's clock and keyframe times are integers.       *)
(***************************************************************************)
EXTENDS Integers, Sequences, FiniteSets, TLC

VARIABLES
    sequence,    \* the CueSequencer resource (intro.rs:443-451)
    next_state,  \* NextState<AppState> as last set by a system
    world,       \* presentation layer: the named entities and the subtitle
    tick_log,    \* what the last sequence_cues run did (signal, pushes)
    call,        \* the last call of a pure sampling function and its result
    level,       \* the Game scene: actor Transform and Movement, PhysicsTick, tiles
    pc,          \* the system of the chained Update schedule that runs next
    solver_log,  \* what the last check_collide run did
    twin         \* a copy of the scene ticked once where the scene ticks often

introVars == <<sequence, next_state, world, tick_log, call>>
gameVars == <<level, pc, solver_log, twin>>
vars == <<sequence, next_state, world, tick_log, call, level, pc, solver_log, twin>>

(***************************************************************************)
(* Bounds of the model.                                                    *)
(***************************************************************************)
MaxT == 3        \* keyframe times range over 0..MaxT
MaxLen == 3      \* longest volume track handed to a sampling function
MaxFlags == 2    \* longest flip / pause / subtitle track handed to one
MaxCues == 3     \* longest cue list compiled by setup_anim before playing
MaxAnim == 4     \* longest cue list compiled by setup_anim on its own
MaxDt == 2       \* largest frame delta handed to sequence_cues
MaxFrames == 3   \* frames of the Game scene

(***************************************************************************)
(* Option<T>: None is the empty tuple, Some(x) the one-element tuple.      *)
(***************************************************************************)
None == <<>>
Some(x) == <<x>>
IsSome(o) == o # <<>>
Unwrap(o) == o[1]
UnwrapOr(o, dflt) == IF o = <<>> THEN dflt ELSE o[1]

(***************************************************************************)
(* f32 arithmetic on extended rationals.                                   *)
(***************************************************************************)
Abs(x) == IF x < 0 THEN -x ELSE x

RECURSIVE Gcd(_, _)
Gcd(a, b) == IF b = 0 THEN a ELSE Gcd(b, a % b)

NaN == [k |-> "nan", n |-> 0, d |-> 1]
PInf == [k |-> "inf", n |-> 1, d |-> 1]
NInf == [k |-> "inf", n |-> -1, d |-> 1]

\* the finite value n/d, d # 0, in lowest terms with a positive denominator
Reduce(n, d, g) ==
    [k |-> "fin", n |-> (IF d < 0 THEN -1 ELSE 1) * (n \div g),
     d |-> (IF d < 0 THEN -1 ELSE 1) * (d \div g)]
Fin(n, d) == Reduce(n, d, Gcd(Abs(n), Abs(d)))

FInt(i) == Fin(i, 1)
FSign(x) == IF x.n < 0 THEN -1 ELSE IF x.n > 0 THEN 1 ELSE 0
FInfOf(sgn) == IF sgn < 0 THEN NInf ELSE PInf

\* x / y
FDivF(x, y) ==
    CASE x.k = "nan" \/ y.k = "nan" -> NaN
      [] x.k = "inf" /\ y.k = "inf" -> NaN
      [] x.k = "inf" -> FInfOf(x.n * (IF y.n < 0 THEN -1 ELSE 1))
      [] y.k = "inf" -> FInt(0)
      [] y.n = 0 -> IF x.n = 0 THEN NaN ELSE FInfOf(x.n)
      [] OTHER -> Fin(x.n * y.d, x.d * y.n)

\* x * y for finite x and y, g and h the common factors across the fractions
MulBy(x, y, g, h) == Fin((x.n \div g) * (y.n \div h), (x.d \div h) * (y.d \div g))

\* x * y
FMul(x, y) ==
    CASE x.k = "nan" \/ y.k = "nan" -> NaN
      [] x.k = "inf" \/ y.k = "inf" ->
            IF FSign(x) * FSign(y) = 0 THEN NaN ELSE FInfOf(FSign(x) * FSign(y))
      [] OTHER -> MulBy(x, y, Gcd(Abs(x.n), y.d), Gcd(Abs(y.n), x.d))

\* x + y for finite x and y, g the common factor of the denominators
AddBy(x, y, g) == Fin(x.n * (y.d \div g) + y.n * (x.d \div g), (x.d \div g) * y.d)

\* x + y
FAdd(x, y) ==
    CASE x.k = "nan" \/ y.k = "nan" -> NaN
      [] x.k = "inf" /\ y.k = "inf" -> IF x.n = y.n THEN x ELSE NaN
      [] x.k = "inf" -> x
      [] y.k = "inf" -> y
      [] OTHER -> AddBy(x, y, Gcd(x.d, y.d))

FNeg(x) == IF x.k = "nan" THEN NaN ELSE [x EXCEPT !.n = -x.n]
FSub(x, y) == FAdd(x, FNeg(y))

\* x < y for finite x and y, g the common factor of the denominators
LtBy(x, y, g) == x.n * (y.d \div g) < y.n * (x.d \div g)

\* x < y and x >= y; every comparison with NaN is false
FLt(x, y) ==
    CASE x.k = "nan" \/ y.k = "nan" -> FALSE
      [] x.k = "inf" /\ y.k = "inf" -> x.n < y.n
      [] x.k = "inf" -> x.n < 0
      [] y.k = "inf" -> y.n > 0
      [] OTHER -> LtBy(x, y, Gcd(x.d, y.d))
FGe(x, y) == x.k # "nan" /\ y.k # "nan" /\ ~FLt(x, y)
FLe(x, y) == FGe(y, x)

(***************************************************************************)
(* Curve tracks: a sequence of keyframes <<time, value>>, time an integer. *)
(***************************************************************************)
KTime(kf) == kf[1]
KVal(kf) == kf[2]

\* index of the first keyframe with time < keyframe time, 0 when none
RECURSIVE FirstAfterFrom(_, _, _)
FirstAfterFrom(curve, time, i) ==
    IF i > Len(curve) THEN 0
    ELSE IF time < KTime(curve[i]) THEN i
    ELSE FirstAfterFrom(curve, time, i + 1)

get_curve_inclusive(curve, time) ==
    IF curve = <<>> THEN None
    ELSE
        LET last == curve[Len(curve)]
            RECURSIVE Scan(_)
            Scan(i) == IF i > Len(curve) THEN 0
                       ELSE IF time <= KTime(curve[i]) THEN i ELSE Scan(i + 1)
            i == Scan(1)
        IN  IF i = 0 THEN Some(<<KVal(last), KVal(last), FInt(1)>>)
            ELSE
                LET b == curve[i]
                    a == IF i = 1 THEN b ELSE curve[i - 1]
                    s == FDivF(FInt(time - KTime(a)), FInt(KTime(b) - KTime(a)))
                IN  Some(<<KVal(a), KVal(b), s>>)

\* the return inside the loop: a and b are the keyframes around time
Segment(a, b, time) ==
    Some(<<KVal(a), KVal(b), FDivF(FInt(time - KTime(a)), FInt(KTime(b) - KTime(a)))>>)

\* the result for i, the index of the first keyframe after time (0: none)
CurveAt(curve, time, i) ==
    IF i = 0 THEN Some(<<KVal(curve[Len(curve)]), KVal(curve[Len(curve)]), FInt(1)>>)
    ELSE Segment(IF i = 1 THEN curve[i] ELSE curve[i - 1], curve[i], time)

\* CueSequencer::get_curve: Option<(before, after, fraction)>
get_curve(curve, time) ==
    IF curve = <<>> THEN None
    ELSE CurveAt(curve, time, FirstAfterFrom(curve, time, 1))

(***************************************************************************)
(* The sampling functions of CueSequencer.  seq is the sequencer record;   *)
(* its maps are functions whose DOMAIN is the set of names with an entry.  *)
(***************************************************************************)
\* vol_b * s + vol_a * (1. - s)
Blend(vol_a, vol_b, s) == FAdd(FMul(vol_b, s), FMul(vol_a, FSub(FInt(1), s)))

\* the blend of a sampled (vol_a, vol_b, s)
Blend3(c) == Blend(c[1], c[2], c[3])

\* `if s >= 1. { b } else { a }` for a sampled (a, b, s)
Snap(c) == IF FGe(c[3], FInt(1)) THEN c[2] ELSE c[1]

\* CueSequencer::get_audio: Option<(volume, paused)>
get_audio(seq, name, time) ==
    IF name \notin DOMAIN seq.audio THEN None
    ELSE Some(<<Blend3(UnwrapOr(get_curve(seq.audio[name][1], time),
                                <<FInt(1), FInt(1), FInt(1)>>)),
                Snap(UnwrapOr(get_curve(seq.audio[name][2], time),
                              <<TRUE, TRUE, FInt(1)>>))>>)

get_despawn_exact(seq, name, time) ==
    IF name \in DOMAIN seq.despawn THEN time = seq.despawn[name] ELSE FALSE

\* CueSequencer::get_despawn
get_despawn(seq, name, time) ==
    IF name \in DOMAIN seq.despawn THEN time >= seq.despawn[name] ELSE FALSE

\* the loop of get_flip over flips[i..]: flip is the value held so far
RECURSIVE FlipScan(_, _, _, _)
FlipScan(flips, time, i, flip) ==
    IF i > Len(flips) THEN flip
    ELSE FlipScan(flips, time, i + 1,
                  IF time >= KTime(flips[i]) THEN Some(KVal(flips[i])) ELSE flip)

get_flip_first(seq, name, time) ==
    IF name \notin DOMAIN seq.flip THEN None
    ELSE LET flips == seq.flip[name]
             hit == {i \in 1..Len(flips) : time >= KTime(flips[i])}
         IN  IF hit = {} THEN None
             ELSE Some(KVal(flips[CHOOSE i \in hit : \A j \in hit : i <= j]))

\* CueSequencer::get_flip: Option<bool>
get_flip(seq, name, time) ==
    IF name \notin DOMAIN seq.flip THEN None
    ELSE FlipScan(seq.flip[name], time, 1, None)

\* CueSequencer::get_subtitle
get_subtitle(seq, time) ==
    Snap(UnwrapOr(get_curve(seq.subtitles, time), <<"", "", FInt(1)>>))

(***************************************************************************)
(* Vec2 and Aabb2d.  A vector is a pair of f32 values, a box a record of   *)
(* its min and max corners.                                                *)
(***************************************************************************)
V(x, y) == <<x, y>>
VInt(x, y) == <<FInt(x), FInt(y)>>
VZero == VInt(0, 0)
VAdd(u, v) == <<FAdd(u[1], v[1]), FAdd(u[2], v[2])>>
VSub(u, v) == <<FSub(u[1], v[1]), FSub(u[2], v[2])>>
VHalf(u) == <<FMul(u[1], Fin(1, 2)), FMul(u[2], Fin(1, 2))>>
FAbs(x) == IF FLt(x, FInt(0)) THEN FNeg(x) ELSE x
\* f32::signum: 1.0 for a positive number or +0.0, -1.0 for a negative one
Signum(x) == IF FLt(x, FInt(0)) THEN -1 ELSE 1

Aabb2dNew(center, half) == [min |-> VSub(center, half), max |-> VAdd(center, half)]
Center(b) == VHalf(VAdd(b.min, b.max))
HalfSize(b) == VHalf(VSub(b.max, b.min))

Lcm(x, y) == (x \div Gcd(x, y)) * y

\* |x| as a multiple of 1 / den
ScaleTo(x, den) == Abs(x.n) * (den \div x.d)

\* U * limb + L < 0, for |L| < 2 * limb^2
MidNegative(U, L, limb) ==
    IF Abs(U) >= 8 * limb THEN U < 0 ELSE U * limb + L < 0

\* H * limb^2 + M * limb + L < 0, for |M| < 4 * limb^2 and |L| < 2 * limb^2:
\* no intermediate product leaves the 32-bit integers
LimbsNegative(H, M, L, limb) ==
    IF Abs(H) >= 8 * limb THEN H < 0 ELSE MidNegative(H * limb + M, L, limb)

\* a^2 + b^2 < c^2 + e^2 for the integers a = ah * limb + al, ... below limb^2
SumSqLtLimbs(ah, al, bh, bl, ch, cl, eh, el, limb) ==
    LimbsNegative(ah * ah + bh * bh - ch * ch - eh * eh,
                  2 * (ah * al + bh * bl - ch * cl - eh * el),
                  al * al + bl * bl - cl * cl - el * el, limb)

SumSqLtInt(a, b, c, e, limb) ==
    SumSqLtLimbs(a \div limb, a % limb, b \div limb, b % limb,
                 c \div limb, c % limb, e \div limb, e % limb, limb)

SumSqLtAt(a, b, c, e, den) ==
    SumSqLtInt(ScaleTo(a, den), ScaleTo(b, den), ScaleTo(c, den), ScaleTo(e, den), 4096)

\* a^2 + b^2 < c^2 + e^2 for finite a, b, c, e: the four are brought to a
\* common denominator and the squares are compared limb by limb
SumSqLt(a, b, c, e) == SumSqLtAt(a, b, c, e, Lcm(Lcm(a.d, b.d), Lcm(c.d, e.d)))

\* u.length_squared() < v.length_squared()
LengthSquaredLt(u, v) == SumSqLt(u[1], u[2], v[1], v[2])

\* Aabb2d::intersects (closed boxes: touching boxes intersect)
Intersects(b, o) ==
    /\ FLe(b.min[1], o.max[1]) /\ FGe(b.max[1], o.min[1])
    /\ FLe(b.min[2], o.max[2]) /\ FGe(b.max[2], o.min[2])

(***************************************************************************)
(* collide_push.  The result is <<push, damph, dampv>>.  FRAC_1_SQRT_2 is  *)
(* irrational: the distance of the corner to the diagonal is kept as its   *)
(* square, dist2 = d*d/2 with d the corner's offset across the diagonal,   *)
(* and the diagonal push (+-FRAC_1_SQRT_2, FRAC_1_SQRT_2) * dist is        *)
(* (+-|d|/2, |d|/2).                                                       *)
(***************************************************************************)
\* a diagonal test that finds no corner outside
PtLineDistNeverOutside(left, pa) ==
    IF left THEN <<FAdd(pa[1], pa[2]), FALSE>> ELSE <<FSub(pa[1], pa[2]), FALSE>>

\* pt_line_dist for the offset pa = p - a of the corner p from the centre a
\* of col_aabb: <<d, sign>>, d the offset of p across the line through a (so
\* dist = |d| / sqrt 2), sign whether p is above the line
PtLineDistAt(left, pa) ==
    IF left THEN <<FAdd(pa[1], pa[2]), FLt(FNeg(pa[1]), pa[2])>>
    ELSE <<FSub(pa[1], pa[2]), FLt(pa[1], pa[2])>>

PtLineDist(left, p, col_aabb) == PtLineDistAt(left, VSub(p, Center(col_aabb)))

\* x < dist, for x >= 0 and dist = |d| / sqrt 2: 2 x^2 < d^2
LtDist(x, d) == SumSqLt(x, x, d, FInt(0))

LargerAbs(a, b) == IF FLt(FAbs(a), FAbs(b)) THEN b ELSE a

\* `if a.abs() < b.abs() { a } else { b }`
SmallerAbs(a, b) == IF FLt(FAbs(a), FAbs(b)) THEN a ELSE b

DiagPushShort(isStep, dir, h) ==
    <<V(FMul(FInt(dir), FMul(h, Fin(1, 2))), FMul(h, Fin(1, 2))), FALSE, isStep>>
DiagPushDamped(isStep, dir, h) == <<V(FMul(FInt(dir), h), h), FALSE, TRUE>>
DiagPushUndamped(isStep, dir, h) == <<V(FMul(FInt(dir), h), h), FALSE, FALSE>>

\* diag_v for dist = |d| / sqrt 2: dir is -1 for StepR / SlopeR
DiagPush(isStep, dir, h) == <<V(FMul(FInt(dir), h), h), FALSE, isStep>>

\* the if / else if / else that ends the two triangle arms of the match
TriangleChoice(isStep, dir, d, horz, vert, dampv) ==
    IF dampv /\ FLt(FAbs(vert), FAbs(horz)) /\ LtDist(FAbs(vert), d)
    THEN <<V(FInt(0), vert), FALSE, dampv>>
    ELSE IF LtDist(FAbs(horz), d)
    THEN <<V(horz, FInt(0)), TRUE, FALSE>>
    ELSE DiagPush(isStep, dir, FMul(FAbs(d), Fin(1, 2)))

\* a triangle arm of the match, ds the result of pt_line_dist
TrianglePush(isStep, dir, ds, horz, vert) ==
    IF ds[2] THEN <<VZero, FALSE, FALSE>>
    ELSE TriangleChoice(isStep, dir, ds[1], horz, vert, isStep \/ FLe(vert, FInt(0)))

SquarePushVerticalOnTie(horz, vert) ==
    IF FLe(FAbs(vert), FAbs(horz))
    THEN <<V(FInt(0), vert), FALSE, TRUE>>
    ELSE <<V(horz, FInt(0)), TRUE, FALSE>>

\* the Collide::Square arm: `if horz.abs() > vert.abs()`
SquarePush(horz, vert) ==
    IF FLt(FAbs(vert), FAbs(horz))
    THEN <<V(FInt(0), vert), FALSE, TRUE>>
    ELSE <<V(horz, FInt(0)), TRUE, FALSE>>

\* the match on col, for the horz and vert chosen at the top of collide_push
PushFor(aabb, col, col_aabb, horz, vert) ==
    CASE col = "Square" -> SquarePush(horz, vert)
      [] col \in {"StepL", "SlopeL"} ->
            TrianglePush(col = "StepL", 1, PtLineDist(TRUE, aabb.min, col_aabb), horz, vert)
      [] col \in {"StepR", "SlopeR"} ->
            TrianglePush(col = "StepR", -1,
                         PtLineDist(FALSE, V(aabb.max[1], aabb.min[2]), col_aabb), horz, vert)

\* collide_push: <<push, damph, dampv>>
collide_push(aabb, col, col_aabb) ==
    PushFor(aabb, col, col_aabb,
            SmallerAbs(FSub(col_aabb.min[1], aabb.max[1]), FSub(col_aabb.max[1], aabb.min[1])),
            SmallerAbs(FSub(col_aabb.min[2], aabb.max[2]), FSub(col_aabb.max[2], aabb.min[2])))

(***************************************************************************)
(* The physics solver, check_collide.  lv is the Game scene: pos and half  *)
(* are the actor's Transform (translation.xy, scale.xy / 2); ctl, force,   *)
(* out, climb its Movement; rem the PhysicsTick resource; tiles the static *)
(* geometry in query order, each [center, half, col].  d is                *)
(* time.delta_seconds() * 60.                                              *)
(***************************************************************************)
TILE_SZ == 50
ActorScale == 45
KillBoxY == -1000
ResolveTries == 3
Gravity == V(FInt(0), Fin(-98, 600))   \* Vec2::new(0., -9.8 / 60.)

TileBox(tile) == Aabb2dNew(tile.center, tile.half)

\* collisions.sort_by(total_cmp on the squared distance): a stable sort;
\* a candidate keeps the vector its squared distance is taken of
RECURSIVE InsertByDist(_, _)
InsertByDist(c, sorted) ==
    IF sorted = <<>> THEN <<c>>
    ELSE IF LengthSquaredLt(c.dist, Head(sorted).dist) THEN <<c>> \o sorted
    ELSE <<Head(sorted)>> \o InsertByDist(c, Tail(sorted))

\* the candidates left in the order of the query
QueryOrder(cs) == cs

RECURSIVE SortByDist(_)
SortByDist(cs) ==
    IF cs = <<>> THEN <<>>
    ELSE InsertByDist(cs[Len(cs)], SortByDist(SubSeq(cs, 1, Len(cs) - 1)))

\* the candidate pushed for tile box col_aabb, when it intersects aabb
Candidate(aabb, col, col_aabb) ==
    IF Intersects(aabb, col_aabb)
    THEN <<[dist |-> VSub(Center(col_aabb), Center(aabb)), col |-> col,
            col_aabb |-> col_aabb]>>
    ELSE <<>>

\* the gather loop: every tile whose box intersects aabb, with its distance
RECURSIVE Gather(_, _, _)
Gather(tiles, aabb, i) ==
    IF i > Len(tiles) THEN <<>>
    ELSE Candidate(aabb, tiles[i].col, TileBox(tiles[i])) \o Gather(tiles, aabb, i + 1)

\* a vertical damping that leaves the force as it is
DampVKeepsForce(force, dampv) == force

\* `if dampv { ...; force.y = 0. }`
DampV(force, dampv) == IF dampv THEN V(force[1], FInt(0)) ELSE force

\* a horizontal damping that hands the push to the force
DampHRebound(force, damph, push) ==
    IF damph THEN V(push[1], force[2]) ELSE force

\* `if damph { if push.x.signum() != force.x.signum() { force.x = 0. } }`
DampH(force, damph, push) ==
    IF damph /\ Signum(push[1]) # Signum(force[1]) THEN V(FInt(0), force[2]) ELSE force

\* the body of `for (_, col, col_aabb) in &collisions` from the call of
\* collide_push on, r its result; st holds the loop's aabb, force, climb,
\* pushed and the number of pushes applied
ApplyPush(st, ctl, r) ==
    IF r[1] = VZero THEN st
    ELSE [st EXCEPT !.climb = @ \/ (r[3] /\ FLt(FInt(0), ctl[2]) /\ FLt(r[1][2], FInt(0))),
                    !.force = DampH(DampV(@, r[3]), r[2], r[1]),
                    !.aabb = [min |-> VAdd(@.min, r[1]), max |-> VAdd(@.max, r[1])],
                    !.pushed = TRUE,
                    !.pushes = @ + 1]

\* the body of `for (_, col, col_aabb) in &collisions` for candidate c
ResolveOne(st, c, ctl) ==
    IF ~Intersects(st.aabb, c.col_aabb) THEN st
    ELSE ApplyPush(st, ctl, collide_push(st.aabb, c.col, c.col_aabb))

RECURSIVE ResolvePass(_, _, _, _)
ResolvePass(st, collisions, j, ctl) ==
    IF j > Len(collisions) THEN st
    ELSE ResolvePass(ResolveOne(st, collisions[j], ctl), collisions, j + 1, ctl)

\* `for i in 0..3`: another pass as long as the last one pushed
RECURSIVE ResolveTry(_, _, _, _)
RECURSIVE ResolveAgain(_, _, _, _)
ResolveTry(st, collisions, i, ctl) ==
    IF i >= ResolveTries THEN st
    ELSE ResolveAgain(ResolvePass([st EXCEPT !.pushed = FALSE], collisions, 1, ctl),
                      collisions, i, ctl)
ResolveAgain(r, collisions, i, ctl) ==
    IF ~r.pushed THEN r ELSE ResolveTry(r, collisions, i + 1, ctl)

\* `force += gravity; aabb = Aabb2d::new(center + ctl + force, half_size)`
Integrate(st, ctl, force) ==
    [st EXCEPT !.force = force,
               !.aabb = Aabb2dNew(VAdd(VAdd(Center(@), ctl), force), HalfSize(@))]

\* the gather, the sort and the resolution passes for the integrated st
Resolve(st, lv) == ResolveTry(st, SortByDist(Gather(lv.tiles, st.aabb, 1)), 0, lv.ctl)

\* one iteration of `while dt > 1.`
SubStep(st, lv) ==
    [Resolve(Integrate(st, lv.ctl, VAdd(st.force, Gravity)), lv)
        EXCEPT !.dt = FSub(@, FInt(1)), !.steps = @ + 1]

RECURSIVE SubStepLoop(_, _)
SubStepLoop(st, lv) ==
    IF FLt(FInt(1), st.dt) THEN SubStepLoop(SubStep(st, lv), lv) ELSE st

\* a write-back of the box centre itself as the displacement
WriteBackCentre(lv, d, r) ==
    [level |-> [lv EXCEPT !.force = r.force, !.climb = r.climb,
                          !.out = Center(r.aabb), !.rem = r.dt],
     log |-> [kind |-> "stepped", before |-> lv.rem, d |-> d, steps |-> r.steps,
              pushes |-> r.pushes]]

\* what check_collide writes back after the loop ended in r
WriteBack(lv, d, r) ==
    [level |-> [lv EXCEPT !.force = r.force, !.climb = r.climb,
                          !.out = VSub(Center(r.aabb), lv.pos), !.rem = r.dt],
     log |-> [kind |-> "stepped", before |-> lv.rem, d |-> d, steps |-> r.steps,
              pushes |-> r.pushes]]

\* check_collide without its early return for an actor at rest
check_collide_no_rest(lv, d) ==
    WriteBack(lv, d,
              SubStepLoop([dt |-> FAdd(lv.rem, d), aabb |-> Aabb2dNew(lv.pos, lv.half),
                           force |-> lv.force, climb |-> FALSE, pushed |-> FALSE,
                           pushes |-> 0, steps |-> 0], lv))

\* check_collide: the scene after the run, and a log of the run
check_collide(lv, d) ==
    IF VAdd(lv.ctl, lv.force) = VZero
    THEN [level |-> [lv EXCEPT !.out = VZero],
          log |-> [kind |-> "idle", before |-> lv.rem, d |-> d, steps |-> 0, pushes |-> 0]]
    ELSE WriteBack(lv, d,
                   SubStepLoop([dt |-> FAdd(lv.rem, d), aabb |-> Aabb2dNew(lv.pos, lv.half),
                                force |-> lv.force, climb |-> FALSE, pushed |-> FALSE,
                                pushes |-> 0, steps |-> 0], lv))

\* check_kbd: keys is the set of pressed keys
check_kbd(lv, keys) ==
    LET vx == (IF "ArrowRight" \in keys THEN 1 ELSE 0) - (IF "ArrowLeft" \in keys THEN 1 ELSE 0)
        vy == (IF "Space" \in keys THEN 1 ELSE 0) - (IF "ArrowDown" \in keys THEN 1 ELSE 0)
    IN  [lv EXCEPT !.ctl = VInt(vx * 5, vy * 5)]

\* `if transform.translation.y < -1000.`: back to the origin
KillBox(p) == IF FLt(p[2], FInt(KillBoxY)) THEN VZero ELSE p

\* update_movement
update_movement(lv) ==
    [lv EXCEPT !.pos = KillBox(VAdd(lv.pos, lv.out)),
               !.rot = IF lv.climb THEN "climb" ELSE "identity",
               !.flip_x = IF lv.climb THEN TRUE
                          ELSE IF FLt(lv.ctl[1], FInt(0)) THEN TRUE
                          ELSE IF FLt(FInt(0), lv.ctl[1]) THEN FALSE
                          ELSE @]

(***************************************************************************)
(* Input sets.                                                             *)
(***************************************************************************)
Names == {"a", "b"}                   \* entity names of ANIM_RSC
Vols == {FInt(0), Fin(1, 2), FInt(1)} \* volume values of Q::Vol cues
Subs == {"", "hi"}                    \* subtitle texts of Q::Subtitle cues
KTimes == 0..MaxT                     \* keyframe times
QTimes == 0..(MaxT + 1)               \* clock values a sample is taken at

\* tracks as setup_anim builds them from ticks >= 0: times never decrease
Tracks(vals, maxlen) ==
    {c \in UNION {[1..n -> KTimes \X vals] : n \in 0..maxlen} :
        \A i \in 1..(Len(c) - 1) : KTime(c[i]) <= KTime(c[i + 1])}

StrictlyIncreasing(c) == \A i \in 1..(Len(c) - 1) : KTime(c[i]) < KTime(c[i + 1])

EmptyMap == [x \in {} |-> <<>>]
MapOf(name, v) == [x \in {name} |-> v]

\* CueSequencer { playing: true, ..default() } (intro.rs:939-942)
NewSequencer ==
    [playing |-> TRUE, audio |-> EmptyMap, despawn |-> EmptyMap, flip |-> EmptyMap,
     subtitles |-> <<>>, time |-> 0, end |-> 0]

\* sequencer states handed to the sampling functions: one channel of "a" is
\* populated, an audio entry holding at most MaxLen keyframes in all
CurveInputs ==
    {NewSequencer}
    \cup {[NewSequencer EXCEPT !.audio = MapOf("a", <<v, p>>)] :
            <<v, p>> \in {vp \in Tracks(Vols, MaxLen) \X Tracks(BOOLEAN, MaxFlags) :
                            Len(vp[1]) + Len(vp[2]) \in 1..MaxLen}}
    \cup {[NewSequencer EXCEPT !.flip = MapOf("a", f)] :
            f \in Tracks(BOOLEAN, MaxFlags) \ {<<>>}}
    \cup {[NewSequencer EXCEPT !.subtitles = c] : c \in Tracks(Subs, MaxFlags) \ {<<>>}}
    \cup {[NewSequencer EXCEPT !.despawn = MapOf("a", d)] : d \in KTimes}

NoCall == [fn |-> "none", name |-> "", chan |-> "", time |-> 0, ret |-> <<>>]
NoWorld == EmptyMap
NoTick == [kind |-> "none", before |-> 0, dt |-> 0, pushes |-> {}, prev |-> "none"]

\* the track of sequencer seq a get_curve call site reads
TrackOf(seq, name, chan) ==
    CASE chan = "vol" -> seq.audio[name][1]
      [] chan = "paused" -> seq.audio[name][2]
      [] chan = "sub" -> seq.subtitles

\* the Game scene while the intro runs: not yet set up
NoLevel == [pos |-> VZero, half |-> VZero, ctl |-> VZero, force |-> VZero, out |-> VZero,
            climb |-> FALSE, rem |-> FInt(0), tiles |-> <<>>, rot |-> "identity",
            flip_x |-> FALSE]
NoSolve == [kind |-> "none", before |-> FInt(0), d |-> FInt(0), steps |-> 0, pushes |-> 0]
GameIdle ==
    /\ level = NoLevel
    /\ pc = [sys |-> "none", frame |-> 0]
    /\ solver_log = NoSolve
    /\ twin = None

(***************************************************************************)
(* SpecCurve: the sampling functions applied to every input.  A behaviour *)
(* draws a sequencer state and applies one function to it once.           *)
(***************************************************************************)
InitCurve ==
    /\ sequence \in CurveInputs
    /\ next_state = "none"
    /\ world = NoWorld
    /\ tick_log = NoTick
    /\ call = NoCall
    /\ GameIdle

CallGetCurve ==
    \E name \in Names, chan \in {"vol", "paused", "sub"}, t \in QTimes :
        /\ call = NoCall
        /\ chan = "sub" \/ name \in DOMAIN sequence.audio
        /\ call' = [fn |-> "get_curve", name |-> name, chan |-> chan, time |-> t,
                    ret |-> get_curve(TrackOf(sequence, name, chan), t)]
        /\ UNCHANGED <<sequence, next_state, world, tick_log, gameVars>>

CallGetAudio ==
    \E name \in Names, t \in QTimes :
        /\ call = NoCall
        /\ call' = [fn |-> "get_audio", name |-> name, chan |-> "", time |-> t,
                    ret |-> get_audio(sequence, name, t)]
        /\ UNCHANGED <<sequence, next_state, world, tick_log, gameVars>>

\* get_despawn may be called again and again on the same sequencer
CallGetDespawn ==
    \E name \in Names, t \in QTimes :
        /\ call.fn \in {"none", "get_despawn"}
        /\ call' = [fn |-> "get_despawn", name |-> name, chan |-> "", time |-> t,
                    ret |-> get_despawn(sequence, name, t)]
        /\ UNCHANGED <<sequence, next_state, world, tick_log, gameVars>>

CallGetFlip ==
    \E name \in Names, t \in QTimes :
        /\ call = NoCall
        /\ call' = [fn |-> "get_flip", name |-> name, chan |-> "", time |-> t,
                    ret |-> get_flip(sequence, name, t)]
        /\ UNCHANGED <<sequence, next_state, world, tick_log, gameVars>>

CallGetSubtitle ==
    \E t \in QTimes :
        /\ call = NoCall
        /\ call' = [fn |-> "get_subtitle", name |-> "", chan |-> "", time |-> t,
                    ret |-> get_subtitle(sequence, t)]
        /\ UNCHANGED <<sequence, next_state, world, tick_log, gameVars>>

NextCurve ==
    \/ CallGetCurve
    \/ CallGetAudio
    \/ CallGetDespawn
    \/ CallGetFlip
    \/ CallGetSubtitle

SpecCurve == InitCurve /\ [][NextCurve]_vars

(***************************************************************************)
(* The cue compiler, setup_anim.  A cue is a tuple headed by its variant:  *)
(* <<"Tick", dt>>, <<"Tran", name, pos>>, <<"Rot", name, rad>>,            *)
(* <<"Flip", name, b>>, <<"Paused", name, b>>, <<"Vol", name, v>>,         *)
(* <<"Despawn", name>>, <<"Subtitle", text>>.                              *)
(***************************************************************************)
\* ANIM_RSC: the kind of bundle spawned under each name
AnimRsc == [a |-> "Sound", b |-> "Sprite"]

\* the local variables of the per-entity loop body at its start
EntityLoopStart ==
    [t |-> 0, pos_next |-> None, pos_frames |-> <<>>, rot_next |-> None,
     rot_frames |-> <<>>, paused_next |-> None, vol_next |-> None,
     vol_cues |-> <<>>, play_cues |-> <<>>, flip_next |-> None, flip_cues |-> <<>>,
     sub_next |-> None, sub_cues |-> <<>>, despawn |-> None]

CommitAfterAdvance(cues, next, t) ==
    IF next = None THEN cues ELSE Append(cues, <<t + 1, Unwrap(next)>>)

\* if let Some(v) = next.take() { cues.push((t, v)) }
Commit(cues, next, t) == IF next = None THEN cues ELSE Append(cues, <<t, Unwrap(next)>>)

\* a pending slot that keeps the first value staged into it
KeepFirst(slot, v) == IF slot = None THEN Some(v) ELSE slot

\* the loop body with slots that keep their first value
CueStepFirstWins(st, cue, name) ==
    CASE cue[1] = "Tran" /\ cue[2] = name -> [st EXCEPT !.pos_next = KeepFirst(@, cue[3])]
      [] cue[1] = "Paused" /\ cue[2] = name -> [st EXCEPT !.paused_next = KeepFirst(@, cue[3])]
      [] cue[1] = "Vol" /\ cue[2] = name -> [st EXCEPT !.vol_next = KeepFirst(@, cue[3])]
      [] cue[1] = "Despawn" /\ cue[2] = name -> [st EXCEPT !.despawn = Some(st.t)]
      [] cue[1] = "Rot" /\ cue[2] = name -> [st EXCEPT !.rot_next = KeepFirst(@, cue[3])]
      [] cue[1] = "Flip" /\ cue[2] = name -> [st EXCEPT !.flip_next = KeepFirst(@, cue[3])]
      [] cue[1] = "Subtitle" -> [st EXCEPT !.sub_next = KeepFirst(@, cue[2])]
      [] cue[1] = "Tick" ->
            [st EXCEPT !.pos_frames = Commit(st.pos_frames, st.pos_next, st.t),
                       !.pos_next = None,
                       !.rot_frames = Commit(st.rot_frames, st.rot_next, st.t),
                       !.rot_next = None,
                       !.vol_cues = Commit(st.vol_cues, st.vol_next, st.t),
                       !.vol_next = None,
                       !.play_cues = Commit(st.play_cues, st.paused_next, st.t),
                       !.paused_next = None,
                       !.flip_cues = Commit(st.flip_cues, st.flip_next, st.t),
                       !.flip_next = None,
                       !.sub_cues = Commit(st.sub_cues, st.sub_next, st.t),
                       !.sub_next = None,
                       !.t = st.t + cue[2]]
      [] OTHER -> st

\* one iteration of `for cue in anim_cue.iter()` for entity name
CueStep(st, cue, name) ==
    CASE cue[1] = "Tran" /\ cue[2] = name -> [st EXCEPT !.pos_next = Some(cue[3])]
      [] cue[1] = "Paused" /\ cue[2] = name -> [st EXCEPT !.paused_next = Some(cue[3])]
      [] cue[1] = "Vol" /\ cue[2] = name -> [st EXCEPT !.vol_next = Some(cue[3])]
      [] cue[1] = "Despawn" /\ cue[2] = name -> [st EXCEPT !.despawn = Some(st.t)]
      [] cue[1] = "Rot" /\ cue[2] = name -> [st EXCEPT !.rot_next = Some(cue[3])]
      [] cue[1] = "Flip" /\ cue[2] = name -> [st EXCEPT !.flip_next = Some(cue[3])]
      [] cue[1] = "Subtitle" -> [st EXCEPT !.sub_next = Some(cue[2])]
      [] cue[1] = "Tick" ->
            [st EXCEPT !.pos_frames = Commit(st.pos_frames, st.pos_next, st.t),
                       !.pos_next = None,
                       !.rot_frames = Commit(st.rot_frames, st.rot_next, st.t),
                       !.rot_next = None,
                       !.vol_cues = Commit(st.vol_cues, st.vol_next, st.t),
                       !.vol_next = None,
                       !.play_cues = Commit(st.play_cues, st.paused_next, st.t),
                       !.paused_next = None,
                       !.flip_cues = Commit(st.flip_cues, st.flip_next, st.t),
                       !.flip_next = None,
                       !.sub_cues = Commit(st.sub_cues, st.sub_next, st.t),
                       !.sub_next = None,
                       !.t = st.t + cue[2]]
      [] OTHER -> st

RECURSIVE CueLoop(_, _, _, _)
CueLoop(st, cues, i, name) ==
    IF i > Len(cues) THEN st ELSE CueLoop(CueStep(st, cues[i], name), cues, i + 1, name)

CueNoFlush(st) == st

\* the flushes after the loop (intro.rs:840-866)
CueFlush(st) ==
    [st EXCEPT !.pos_frames = Commit(st.pos_frames, st.pos_next, st.t),
               !.rot_frames = Commit(st.rot_frames, st.rot_next, st.t),
               !.vol_cues = Commit(st.vol_cues, st.vol_next, st.t),
               !.vol_next = None,
               !.play_cues = Commit(st.play_cues, st.paused_next, st.t),
               !.paused_next = None,
               !.flip_cues = Commit(st.flip_cues, st.flip_next, st.t),
               !.flip_next = None,
               !.sub_cues = Commit(st.sub_cues, st.sub_next, st.t),
               !.sub_next = None]

\* the tracks compiled for one entity
CompileEntity(cues, name) == CueFlush(CueLoop(EntityLoopStart, cues, 1, name))

\* first loop of setup_anim: end = sum of the Tick deltas
RECURSIVE SumTicks(_, _)
SumTicks(cues, i) ==
    IF i > Len(cues) THEN 0
    ELSE (IF cues[i][1] = "Tick" THEN cues[i][2] ELSE 0) + SumTicks(cues, i + 1)

\* Map::insert
MapInsert(m, key, v) == [x \in DOMAIN m \cup {key} |-> IF x = key THEN v ELSE m[x]]

\* the sequencer inserts at the end of one entity's loop body (intro.rs:856-910)
InsertDespawn(seq, name, st) ==
    IF st.despawn # None
    THEN [seq EXCEPT !.despawn = MapInsert(@, name, Unwrap(st.despawn))]
    ELSE seq

InsertAudio(seq, name, st) ==
    IF ~(st.vol_cues = <<>> /\ st.play_cues = <<>>)
    THEN [seq EXCEPT !.audio = MapInsert(@, name, <<st.vol_cues, st.play_cues>>)]
    ELSE seq

InsertFlip(seq, name, st) ==
    IF st.flip_cues # <<>> THEN [seq EXCEPT !.flip = MapInsert(@, name, st.flip_cues)]
    ELSE seq

InsertSubtitles(seq, st) ==
    IF st.sub_cues # <<>> THEN [seq EXCEPT !.subtitles = st.sub_cues] ELSE seq

InsertEntity(seq, name, st) ==
    InsertSubtitles(InsertFlip(InsertAudio(InsertDespawn(seq, name, st), name, st),
                               name, st), st)

RECURSIVE InsertEntities(_, _, _)
InsertEntities(seq, cues, names) ==
    IF names = {} THEN seq
    ELSE LET name == CHOOSE x \in names : TRUE
         IN  InsertEntities(InsertEntity(seq, name, CompileEntity(cues, name)),
                            cues, names \ {name})

\* the CueSequencer resource after setup and setup_anim ran on cue list cues
setup_anim(cues) ==
    InsertEntities([NewSequencer EXCEPT !.end = SumTicks(cues, 1)], cues, DOMAIN AnimRsc)

(***************************************************************************)
(* The cue player, sequence_cues.  world.ents maps the name of every live  *)
(* entity to its components: sink / sprite say whether it has an AudioSink *)
(* / a Sprite; world.subtitle is the text of the Subtitle entity.          *)
(***************************************************************************)
\* the entity setup_anim spawns for a resource of the given kind; the
\* AudioSink of a Sound is attached by the audio engine once it is ready
Spawn(kind, sinkReady) ==
    [sink |-> (kind = "Sound" /\ sinkReady), sprite |-> (kind = "Sprite"),
     volume |-> FInt(1), paused |-> TRUE, flip_x |-> FALSE]

SpawnWorld(sinkReady) ==
    [ents |-> [name \in DOMAIN AnimRsc |-> Spawn(AnimRsc[name], sinkReady)],
     subtitle |-> ""]

\* body of `for (e, name) in &mut names` on the entity's components
ApplyAudio(e, au) ==
    IF au # None /\ e.sink THEN [e EXCEPT !.volume = au[1][1], !.paused = au[1][2]] ELSE e

ApplyFlip(e, fl) == IF fl # None /\ e.sprite THEN [e EXCEPT !.flip_x = fl[1]] ELSE e

EntityTick(seq, name, e, t) ==
    ApplyFlip(ApplyAudio(e, get_audio(seq, name, t)), get_flip(seq, name, t))

\* the calls that loop body makes on the presentation layer
PushesOf(name, e, au, despawn, fl) ==
    (IF au # None /\ e.sink THEN {<<"volume", name, au[1][1]>>} ELSE {})
    \cup (IF au # None /\ e.sink /\ e.paused # au[1][2]
          THEN {<<"paused", name, au[1][2]>>} ELSE {})
    \cup (IF despawn THEN {<<"despawn", name>>} ELSE {})
    \cup (IF fl # None /\ e.sprite THEN {<<"flip", name, fl[1]>>} ELSE {})

EntityPushes(seq, name, e, t) ==
    PushesOf(name, e, get_audio(seq, name, t), get_despawn(seq, name, t),
             get_flip(seq, name, t))

\* a sampling that gives up when a tracked name has no live entity
SampleWithAllOrNothing(seq, w, t, sub) ==
    IF (DOMAIN seq.audio \cup DOMAIN seq.despawn \cup DOMAIN seq.flip) \subseteq DOMAIN w.ents
    THEN [world |-> [ents |-> [name \in {n \in DOMAIN w.ents : ~get_despawn(seq, n, t)} |->
                                 EntityTick(seq, name, w.ents[name], t)],
                     subtitle |-> sub],
          pushes |-> UNION {EntityPushes(seq, name, w.ents[name], t) : name \in DOMAIN w.ents}
                     \cup (IF w.subtitle # sub THEN {<<"subtitle", sub>>} ELSE {})]
    ELSE [world |-> w, pushes |-> {}]

\* the sampling part of sequence_cues at the advanced clock t (intro.rs:540-566)
SampleWith(seq, w, t, sub) ==
    [world |-> [ents |-> [name \in {n \in DOMAIN w.ents : ~get_despawn(seq, n, t)} |->
                            EntityTick(seq, name, w.ents[name], t)],
                subtitle |-> sub],
     pushes |-> UNION {EntityPushes(seq, name, w.ents[name], t) : name \in DOMAIN w.ents}
                \cup (IF w.subtitle # sub THEN {<<"subtitle", sub>>} ELSE {})]

SampleAll(seq, w, t) == SampleWith(seq, w, t, get_subtitle(seq, t))

\* a sampling tick that leaves the clock where it was
SampledClockKept(seq, ns, dt, r) ==
    [sequence |-> seq, world |-> r.world, next_state |-> ns,
     log |-> [kind |-> "sampled", before |-> seq.time, dt |-> dt, pushes |-> r.pushes]]

\* the run that advanced the clock by dt and sampled r
Sampled(seq, ns, dt, r) ==
    [sequence |-> [seq EXCEPT !.time = seq.time + dt], world |-> r.world, next_state |-> ns,
     log |-> [kind |-> "sampled", before |-> seq.time, dt |-> dt, pushes |-> r.pushes]]

sequence_cues_advance_first(seq, w, ns, dt) ==
    IF ~seq.playing
    THEN [sequence |-> seq, world |-> w, next_state |-> ns,
          log |-> [kind |-> "off", before |-> seq.time, dt |-> dt, pushes |-> {}]]
    ELSE IF seq.time + dt >= seq.end
    THEN [sequence |-> [seq EXCEPT !.time = seq.time + dt], world |-> w, next_state |-> "Game",
          log |-> [kind |-> "finished", before |-> seq.time, dt |-> dt, pushes |-> {}]]
    ELSE LET t == seq.time + dt
             r == SampleAll(seq, w, t)
         IN  [sequence |-> [seq EXCEPT !.time = t], world |-> r.world, next_state |-> ns,
              log |-> [kind |-> "sampled", before |-> seq.time, dt |-> dt,
                       pushes |-> r.pushes]]

sequence_cues_no_return(seq, w, ns, dt) ==
    IF ~seq.playing
    THEN [sequence |-> seq, world |-> w, next_state |-> ns,
          log |-> [kind |-> "off", before |-> seq.time, dt |-> dt, pushes |-> {}]]
    ELSE LET t == seq.time + dt
             r == SampleAll(seq, w, t)
             done == seq.time >= seq.end
         IN  [sequence |-> [seq EXCEPT !.time = t], world |-> r.world,
              next_state |-> IF done THEN "Game" ELSE ns,
              log |-> [kind |-> IF done THEN "finished" ELSE "sampled",
                       before |-> seq.time, dt |-> dt, pushes |-> r.pushes]]

\* sequence_cues whose finished tick does not set the next state
sequence_cues_no_signal(seq, w, ns, dt) ==
    IF ~seq.playing
    THEN [sequence |-> seq, world |-> w, next_state |-> ns,
          log |-> [kind |-> "off", before |-> seq.time, dt |-> dt, pushes |-> {}]]
    ELSE IF seq.time >= seq.end
    THEN [sequence |-> seq, world |-> w, next_state |-> ns,
          log |-> [kind |-> "finished", before |-> seq.time, dt |-> dt, pushes |-> {}]]
    ELSE Sampled(seq, ns, dt, SampleAll(seq, w, seq.time + dt))

\* sequence_cues without the check of the playing flag
sequence_cues_flag_ignored(seq, w, ns, dt) ==
    IF seq.time >= seq.end
    THEN [sequence |-> seq, world |-> w, next_state |-> "Game",
          log |-> [kind |-> "finished", before |-> seq.time, dt |-> dt, pushes |-> {}]]
    ELSE Sampled(seq, ns, dt, SampleAll(seq, w, seq.time + dt))

\* sequence_cues on sequencer seq, world w and pending state ns, with frame
\* delta dt: the new sequencer, world and pending state, and a log of the run
sequence_cues(seq, w, ns, dt) ==
    IF ~seq.playing
    THEN [sequence |-> seq, world |-> w, next_state |-> ns,
          log |-> [kind |-> "off", before |-> seq.time, dt |-> dt, pushes |-> {}]]
    ELSE IF seq.time >= seq.end
    THEN [sequence |-> seq, world |-> w, next_state |-> "Game",
          log |-> [kind |-> "finished", before |-> seq.time, dt |-> dt, pushes |-> {}]]
    ELSE Sampled(seq, ns, dt, SampleAll(seq, w, seq.time + dt))

(***************************************************************************)
(* Spec: the intro scene.  Init is the state after setup and setup_anim    *)
(* ran on a cue list; every step is one run of sequence_cues.              *)
(***************************************************************************)
CueAlphabet ==
    {<<"Tick", 1>>, <<"Tick", 2>>,
     <<"Vol", "a", FInt(0)>>, <<"Vol", "a", FInt(1)>>,
     <<"Paused", "a", FALSE>>, <<"Paused", "a", TRUE>>,
     <<"Flip", "b", TRUE>>, <<"Despawn", "a">>, <<"Despawn", "b">>,
     <<"Subtitle", "hi">>}

AnimCues == UNION {[1..n -> CueAlphabet] : n \in 0..MaxCues}

Init ==
    /\ \E cues \in AnimCues : sequence = setup_anim(cues)
    /\ \E sinkReady \in BOOLEAN : world = SpawnWorld(sinkReady)
    /\ next_state = "none"
    /\ tick_log = NoTick
    /\ call = NoCall
    /\ GameIdle

\* the state after sequence_cues ran with result r
Ran(r) ==
    /\ sequence' = r.sequence
    /\ world' = r.world
    /\ next_state' = r.next_state
    /\ tick_log' = [kind |-> r.log.kind, before |-> r.log.before, dt |-> r.log.dt,
                    pushes |-> r.log.pushes, prev |-> tick_log.kind]
    /\ UNCHANGED <<call, gameVars>>

\* one frame of the Update schedule in AppState::Intro
Tick ==
    \E dt \in 0..MaxDt : Ran(sequence_cues(sequence, world, next_state, dt))

Next == Tick

Spec == Init /\ [][Next]_vars

(***************************************************************************)
(* SpecLive: the cue player with frames that keep coming.  The Update      *)
(* schedule runs sequence_cues on every frame of AppState::Intro, and the  *)
(* frame delta is the time elapsed since the last frame: frames of a delta *)
(* of at least 1 are never withheld for ever.  The animations are made of  *)
(* clock, despawn, flip and subtitle cues.                                 *)
(***************************************************************************)
LiveAlphabet ==
    {<<"Tick", 1>>, <<"Tick", 2>>, <<"Despawn", "a">>, <<"Despawn", "b">>,
     <<"Flip", "b", TRUE>>, <<"Subtitle", "hi">>}

LiveCues == UNION {[1..n -> LiveAlphabet] : n \in 0..MaxCues}

InitLive ==
    /\ \E cues \in LiveCues : sequence = setup_anim(cues)
    /\ \E sinkReady \in BOOLEAN : world = SpawnWorld(sinkReady)
    /\ next_state = "none"
    /\ tick_log = NoTick
    /\ call = NoCall
    /\ GameIdle

\* a frame whose delta is at least 1
TickForward ==
    \E dt \in 1..MaxDt :
        \E r \in {sequence_cues(sequence, world, next_state, dt)} : Ran(r)

SpecLive == InitLive /\ [][Next]_vars /\ WF_vars(TickForward)

(***************************************************************************)
(* SpecHalt: the cue player on a sequencer whose playing flag is either    *)
(* the `true` of intro::setup or the `false` of CueSequencer::default().   *)
(***************************************************************************)
InitHalt ==
    /\ \E cues \in AnimCues, playing \in BOOLEAN :
            sequence = [setup_anim(cues) EXCEPT !.playing = playing]
    /\ \E sinkReady \in BOOLEAN : world = SpawnWorld(sinkReady)
    /\ next_state = "none"
    /\ tick_log = NoTick
    /\ call = NoCall
    /\ GameIdle

SpecHalt == InitHalt /\ [][Next]_vars

(***************************************************************************)
(* SpecCompile: setup_anim on its own.  Init is the state after setup      *)
(* inserted the CueSequencer resource; the one step is setup_anim, run on  *)
(* entering AppState::Intro, applied to a cue list.  call.ret keeps the    *)
(* cue list and, per entity, the locals of the loop body at its end.       *)
(***************************************************************************)
CompileAlphabet ==
    {<<"Tick", 0>>, <<"Tick", 1>>,
     <<"Tran", "a", <<1, 2, 0>>>>, <<"Tran", "a", <<3, 4, 0>>>>, <<"Rot", "a", 1>>,
     <<"Vol", "a", FInt(0)>>, <<"Paused", "a", FALSE>>,
     <<"Flip", "b", TRUE>>, <<"Despawn", "a">>, <<"Subtitle", "hi">>}

CompileCues == UNION {[1..n -> CompileAlphabet] : n \in 0..MaxAnim}

InitCompile ==
    /\ sequence = NewSequencer
    /\ next_state = "none"
    /\ world = NoWorld
    /\ tick_log = NoTick
    /\ call = NoCall
    /\ GameIdle

SetupAnim ==
    /\ call = NoCall
    /\ \E cues \in CompileCues :
        /\ sequence' = setup_anim(cues)
        /\ call' = [fn |-> "setup_anim", name |-> "", chan |-> "", time |-> 0,
                    ret |-> [cues |-> cues,
                             locals |-> [name \in DOMAIN AnimRsc |->
                                            CompileEntity(cues, name)]]]
        /\ UNCHANGED <<next_state, world, tick_log, gameVars>>

NextCompile == SetupAnim

SpecCompile == InitCompile /\ [][NextCompile]_vars

(***************************************************************************)
(* SpecSolver: the Game scene.  Init is the state after level::setup on a  *)
(* tile layout; a frame runs check_kbd, check_collide and update_movement  *)
(* in that order (the chained Update systems).                             *)
(***************************************************************************)
Tile(x, y, col) ==
    [center |-> VInt(x * TILE_SZ, y * TILE_SZ),
     half |-> VHalf(VInt(TILE_SZ, TILE_SZ)), col |-> col]

\* tile layouts around the actor, on the TILE_SZ grid of the tile map
Layouts ==
    {<<>>,
     <<Tile(0, -1, "Square")>>,
     <<Tile(0, -1, "Square"), Tile(1, 0, "Square")>>,
     <<Tile(0, -1, "Square"), Tile(1, 0, "SlopeR")>>,
     <<Tile(0, -1, "Square"), Tile(-1, 0, "StepL")>>,
     <<Tile(0, -1, "Square"), Tile(0, 1, "Square")>>}

\* pressed-key sets offered to check_kbd
KeySets == {{}, {"ArrowRight"}, {"ArrowLeft"}, {"Space"}, {"ArrowDown"}}

\* frame deltas, as quarters of a physics tick (delta_seconds * 60 * 4)
DtQuarters == {0, 1, 6, 22}
BackwardDtQuarters == {-2}

\* the actor spawned by level::setup: Movement::default() at the origin,
\* PhysicsTick(0.)
NewLevel(tiles) ==
    [pos |-> VZero, half |-> VHalf(VInt(ActorScale, ActorScale)), ctl |-> VZero,
     force |-> VZero, out |-> VZero, climb |-> FALSE, rem |-> FInt(0), tiles |-> tiles,
     rot |-> "identity", flip_x |-> FALSE]

IntroIdle ==
    /\ sequence = NewSequencer
    /\ next_state = "none"
    /\ world = NoWorld
    /\ tick_log = NoTick
    /\ call = NoCall

InitSolver ==
    /\ IntroIdle
    /\ \E tiles \in Layouts : level = NewLevel(tiles)
    /\ pc = [sys |-> "check_kbd", frame |-> 0]
    /\ solver_log = NoSolve
    /\ twin = None

CheckKbd ==
    /\ pc.sys = "check_kbd"
    /\ pc.frame < MaxFrames
    /\ \E keys \in KeySets :
        /\ twin # None => check_kbd(level, keys).ctl = level.ctl
        /\ level' = check_kbd(level, keys)
    /\ pc' = [pc EXCEPT !.sys = "check_collide"]
    /\ UNCHANGED <<solver_log, twin, introVars>>

\* check_collide with the frame delta d; a twin collects the elapsed time
Collided(d, r) ==
    /\ level' = r.level
    /\ solver_log' = r.log
    /\ twin' = IF twin = None THEN None
               ELSE Some([Unwrap(twin) EXCEPT !.pending = FAdd(@, d), !.fresh = FALSE])
    /\ pc' = [pc EXCEPT !.sys = "update_movement"]
    /\ UNCHANGED introVars

CollideWith(d) == Collided(d, check_collide(level, d))

CheckCollide ==
    /\ pc.sys = "check_collide"
    /\ \E q \in DtQuarters : CollideWith(Fin(q, 4))

\* check_collide on a frame whose clock delta is negative.  bevy's Time
\* keeps the delta as a Duration and never reports one; the action shows
\* what the arithmetic of check_collide does with it
CheckCollideBackward ==
    /\ pc.sys = "check_collide"
    /\ \E q \in BackwardDtQuarters : CollideWith(Fin(q, 4))

UpdateMovement ==
    /\ pc.sys = "update_movement"
    /\ level' = update_movement(level)
    /\ twin' = IF twin = None THEN None
               ELSE Some([Unwrap(twin) EXCEPT !.fine = VAdd(@, level.out)])
    /\ pc' = [sys |-> "check_kbd", frame |-> pc.frame + 1]
    /\ UNCHANGED <<solver_log, introVars>>

NextSolver ==
    \/ CheckKbd
    \/ CheckCollide
    \/ UpdateMovement

SpecSolver == InitSolver /\ [][NextSolver]_vars

NextClock ==
    \/ CheckKbd
    \/ CheckCollide
    \/ CheckCollideBackward
    \/ UpdateMovement

\* SpecClock: SpecSolver with a clock that may also step backwards
SpecClock == InitSolver /\ [][NextClock]_vars

(***************************************************************************)
(* SpecSplit: SpecSolver, where before some run of check_collide a twin of *)
(* the scene is forked.  From then on the control input stays as it is;    *)
(* the scene goes on frame by frame, and at a frame boundary the twin is   *)
(* ticked once with the whole time elapsed since it was last ticked.       *)
(***************************************************************************)
Fork ==
    /\ pc.sys = "check_collide"
    /\ twin = None
    /\ twin' = Some([lv |-> level, pending |-> FInt(0), fresh |-> FALSE,
                     coarse |-> VZero, fine |-> VZero])
    /\ UNCHANGED <<level, pc, solver_log, introVars>>

\* the twin after its check_collide gave the scene lv
TwinTick(tw, lv) ==
    [tw EXCEPT !.lv = update_movement(lv), !.coarse = VAdd(@, lv.out),
               !.pending = FInt(0), !.fresh = TRUE]

Sync ==
    /\ pc.sys = "check_kbd"
    /\ twin # None
    /\ FLt(FInt(0), Unwrap(twin).pending)
    /\ twin' = Some(TwinTick(Unwrap(twin), check_collide(Unwrap(twin).lv,
                                                         Unwrap(twin).pending).level))
    /\ UNCHANGED <<level, pc, solver_log, introVars>>

NextSplit ==
    \/ CheckKbd
    \/ CheckCollide
    \/ UpdateMovement
    \/ Fork
    \/ Sync

\* the layouts a twin is forked on: free fall, and a floor to land on
SplitLayouts == {<<>>, <<Tile(0, -1, "Square")>>}

InitSplit ==
    /\ InitSolver
    /\ level.tiles \in SplitLayouts

SpecSplit == InitSplit /\ [][NextSplit]_vars

(***************************************************************************)
(* SpecPush: collide_push and one resolution pass applied to every input.  *)
(* A behaviour draws an actor box, one tile whose box intersects it and a  *)
(* force, and applies collide_push, or the pass of check_collide over the  *)
(* tile, once.                                                             *)
(***************************************************************************)
Shapes == {"Square", "StepL", "SlopeL", "StepR", "SlopeR"}
PushOffsets == {-50, -40, -25, -10, 0, 10, 25, 40, 50}
PushForces == {VInt(3, -4), VInt(-3, -4), VInt(0, -4)}

\* half sizes of the actor's box: as large as a tile, the actor as spawned
\* (scale 45), and a box taller than it is wide
PushHalves == {VInt(25, 25), VHalf(VInt(ActorScale, ActorScale)), VInt(25, 50)}

\* half sizes of the tile's box: a tile of the map (TILE_SZ), and a box of
\* no area
TileHalves == {VHalf(VInt(TILE_SZ, TILE_SZ)), VZero}

PushLevel(x, y, col, force, half, tile_half) ==
    [NoLevel EXCEPT !.half = half, !.force = force,
                    !.tiles = <<[center |-> VInt(x, y), half |-> tile_half, col |-> col]>>]

\* the actor's box and the loop state a resolution pass starts from
ActorBox(lv) == Aabb2dNew(lv.pos, lv.half)
PassStart(lv) ==
    [dt |-> FInt(0), aabb |-> ActorBox(lv), force |-> lv.force, climb |-> FALSE,
     pushed |-> FALSE, pushes |-> 0, steps |-> 0]

InitPush ==
    /\ IntroIdle
    /\ \E x \in PushOffsets, y \in PushOffsets, col \in Shapes, force \in PushForces,
          half \in PushHalves, tile_half \in TileHalves :
            level = PushLevel(x, y, col, force, half, tile_half)
    /\ pc = [sys |-> "none", frame |-> 0]
    /\ solver_log = NoSolve
    /\ twin = None

CallCollidePush ==
    /\ call = NoCall
    /\ Intersects(ActorBox(level), TileBox(level.tiles[1]))
    /\ call' = [fn |-> "collide_push", name |-> "", chan |-> level.tiles[1].col, time |-> 0,
                ret |-> collide_push(ActorBox(level), level.tiles[1].col,
                                     TileBox(level.tiles[1]))]
    /\ UNCHANGED <<sequence, next_state, world, tick_log, gameVars>>

CallResolvePass ==
    /\ call = NoCall
    /\ call' = [fn |-> "resolve_pass", name |-> "", chan |-> level.tiles[1].col, time |-> 0,
                ret |-> ResolvePass(PassStart(level),
                                    SortByDist(Gather(level.tiles, ActorBox(level), 1)),
                                    1, level.ctl)]
    /\ UNCHANGED <<sequence, next_state, world, tick_log, gameVars>>

NextPush ==
    \/ CallCollidePush
    \/ CallResolvePass

SpecPush == InitPush /\ [][NextPush]_vars

(***************************************************************************)
(* SpecSubStep: one iteration of `while dt > 1.` of check_collide, for an  *)
(* actor near the origin among a few tiles of the grid.                    *)
(***************************************************************************)
\* tiles in query order; the closest tile is not always the first
SubStepLayouts ==
    {<<Tile(1, 0, "Square"), Tile(0, -1, "Square")>>,
     <<Tile(1, -1, "Square"), Tile(0, -1, "Square"), Tile(1, 0, "Square")>>,
     <<Tile(0, -1, "Square"), Tile(1, 0, "SlopeR")>>,
     <<Tile(-1, 0, "StepL"), Tile(0, -1, "Square")>>,
     <<Tile(0, 1, "Square"), Tile(0, -1, "Square")>>,
     <<Tile(1, -1, "SlopeR"), Tile(0, -1, "Square")>>,
     <<Tile(0, -1, "Square"), Tile(1, 0, "SlopeR"), Tile(1, 1, "Square")>>}

\* actor positions, in halves: -5/2 stands on the tiles of row -1, 5/2
\* touches the tiles of column 1 and of row 1, and (15/2, 5/2) stands on the
\* diagonal of a right slope in column 1, row 0
SubStepHalves == {-20, -5, 0, 5, 15, 20}
SubStepCtls == {VZero, VInt(5, 0), VInt(-5, 0), VInt(0, 5), VInt(0, -5)}
SubStepForces == {VZero, VInt(0, -3), V(FInt(0), Fin(-49, 300))}

InitSubStep ==
    /\ IntroIdle
    /\ \E tiles \in SubStepLayouts, x \in SubStepHalves, y \in SubStepHalves,
          ctl \in SubStepCtls, force \in SubStepForces :
            level = [NewLevel(tiles) EXCEPT !.pos = V(Fin(x, 2), Fin(y, 2)),
                                            !.ctl = ctl, !.force = force]
    /\ pc = [sys |-> "none", frame |-> 0]
    /\ solver_log = NoSolve
    /\ twin = None

\* the loop state at the top of the iteration, and after the integration
SubStepStart(lv) == [PassStart(lv) EXCEPT !.dt = FInt(2)]
Integrated(lv) == Integrate(SubStepStart(lv), lv.ctl, VAdd(lv.force, Gravity))

\* the iteration: the integrated box, the sorted candidates, the state after
\* the first resolution pass and the state at the end of the iteration
CallSubStep ==
    /\ call = NoCall
    /\ call' = [fn |-> "sub_step", name |-> "", chan |-> "", time |-> 0,
                ret |-> [box |-> Integrated(level).aabb,
                         cands |-> SortByDist(Gather(level.tiles, Integrated(level).aabb, 1)),
                         pass |-> ResolvePass(Integrated(level),
                                      SortByDist(Gather(level.tiles,
                                                        Integrated(level).aabb, 1)),
                                      1, level.ctl),
                         end |-> SubStep(SubStepStart(level), level)]]
    /\ UNCHANGED <<sequence, next_state, world, tick_log, gameVars>>

NextSubStep == CallSubStep

SpecSubStep == InitSubStep /\ [][NextSubStep]_vars

(***************************************************************************)
(* Properties of the sampling functions (checked under SpecCurve).         *)
(***************************************************************************)
CallTrack == TrackOf(sequence, call.name, call.chan)
FMin(x, y) == IF FLt(y, x) THEN y ELSE x
FMax(x, y) == IF FLt(x, y) THEN y ELSE x

\* C6: on a track with strictly increasing times, a query time t with
\* t_i <= t < t_(i+1) returns (value_i, value_(i+1), (t - t_i)/(t_(i+1) - t_i));
\* the fraction is in [0,1) and is 0 exactly at t = t_i.
C6_SegmentSample ==
    (call.fn = "get_curve" /\ StrictlyIncreasing(CallTrack)) =>
        \A i \in 1..(Len(CallTrack) - 1) :
            LET ti == KTime(CallTrack[i])
                tj == KTime(CallTrack[i + 1])
            IN  (ti <= call.time /\ call.time < tj) =>
                    /\ call.ret = Some(<<KVal(CallTrack[i]), KVal(CallTrack[i + 1]),
                                         Fin(call.time - ti, tj - ti)>>)
                    /\ FGe(call.ret[1][3], FInt(0))
                    /\ FLt(call.ret[1][3], FInt(1))
                    /\ (call.ret[1][3] = FInt(0)) <=> (call.time = ti)

\* a three-keyframe track sampled exactly at its second keyframe
C6_Witness ==
    /\ call.fn = "get_curve"
    /\ StrictlyIncreasing(CallTrack)
    /\ Len(CallTrack) = 3
    /\ call.time = KTime(CallTrack[2])
    /\ KVal(CallTrack[2]) # KVal(CallTrack[3])
    /\ call.ret = Some(<<KVal(CallTrack[2]), KVal(CallTrack[3]), FInt(0)>>)

\* C7: on a non-empty track, a query time strictly before the first keyframe
\* returns the first value twice with fraction exactly 1.
C7_BeforeFirst ==
    (call.fn = "get_curve" /\ CallTrack # <<>> /\ call.time < KTime(CallTrack[1])) =>
        call.ret = Some(<<KVal(CallTrack[1]), KVal(CallTrack[1]), FInt(1)>>)

\* C8: on a non-empty track, a query time at or after the last keyframe
\* returns (last, last, 1); a single keyframe at time 0 answers every t >= 0.
C8_AtOrAfterLast ==
    (call.fn = "get_curve" /\ CallTrack # <<>>) =>
        LET last == CallTrack[Len(CallTrack)]
        IN  /\ call.time >= KTime(last) =>
                call.ret = Some(<<KVal(last), KVal(last), FInt(1)>>)
            /\ (Len(CallTrack) = 1 /\ KTime(last) = 0 /\ call.time >= 0) =>
                call.ret = Some(<<KVal(last), KVal(last), FInt(1)>>)

\* a two-keyframe track with two values sampled exactly at its last keyframe
C8_Witness ==
    /\ call.fn = "get_curve"
    /\ Len(CallTrack) >= 2
    /\ KVal(CallTrack[Len(CallTrack) - 1]) # KVal(CallTrack[Len(CallTrack)])
    /\ call.time = KTime(CallTrack[Len(CallTrack)])
    /\ call.ret[1][3] = FInt(1)

\* C9: for an entity with a volume track and any clock t >= 0, the volume of
\* get_audio is a finite blend lying between the two keyframe values that
\* enclose t (the first value twice before the first keyframe, the last value
\* twice from the last keyframe on).
C9_VolumeInRange ==
    (/\ call.fn = "get_audio"
     /\ call.name \in DOMAIN sequence.audio
     /\ sequence.audio[call.name][1] # <<>>
     /\ call.time >= 0) =>
        LET vol == sequence.audio[call.name][1]
            hit == {i \in 1..Len(vol) : KTime(vol[i]) <= call.time}
            i == IF hit = {} THEN 1 ELSE CHOOSE m \in hit : \A j \in hit : j <= m
            a == KVal(vol[i])
            b == IF hit = {} \/ i = Len(vol) THEN a ELSE KVal(vol[i + 1])
            v == call.ret[1][1]
        IN  /\ v.k = "fin"
            /\ FLe(FMin(a, b), v)
            /\ FLe(v, FMax(a, b))

\* C10: get_flip returns the value of the last flip keyframe whose time is
\* <= t, which has the greatest such time, and None when the entity has no
\* flip track or t is before the first flip keyframe.
C10_FlipLastSetWins ==
    call.fn = "get_flip" =>
        IF call.name \notin DOMAIN sequence.flip THEN call.ret = None
        ELSE
            LET flips == sequence.flip[call.name]
                hit == {i \in 1..Len(flips) : KTime(flips[i]) <= call.time}
            IN  IF hit = {} THEN call.ret = None
                ELSE \E i \in hit :
                        /\ \A j \in hit : j <= i /\ KTime(flips[j]) <= KTime(flips[i])
                        /\ call.ret = Some(KVal(flips[i]))

\* two flip keyframes with different values, both already reached
C10_Witness ==
    /\ call.fn = "get_flip"
    /\ call.name \in DOMAIN sequence.flip
    /\ Len(sequence.flip[call.name]) = 2
    /\ KVal(sequence.flip[call.name][1]) # KVal(sequence.flip[call.name][2])
    /\ KTime(sequence.flip[call.name][1]) < KTime(sequence.flip[call.name][2])
    /\ call.time > KTime(sequence.flip[call.name][2])
    /\ call.ret = Some(KVal(sequence.flip[call.name][2]))

\* the value a step-hold channel shows at time: that of the most recent
\* keyframe with time <= time, the prior state before the first keyframe
HeldAt(track, time, prior) ==
    LET hit == {i \in 1..Len(track) : KTime(track[i]) <= time}
    IN  IF hit = {} THEN prior
        ELSE KVal(track[CHOOSE i \in hit : \A j \in hit : j <= i])

\* C11: the snapped channels are step-hold like flip: at every clock t
\* get_subtitle, and the paused flag of get_audio, give the value of the most
\* recent keyframe with time <= t, and before the first keyframe the state
\* that holds without any keyframe ("" for subtitles, paused for audio).
C11_SnapIsStepHold ==
    /\ call.fn = "get_subtitle" =>
            call.ret = HeldAt(sequence.subtitles, call.time, "")
    /\ (call.fn = "get_audio" /\ call.name \in DOMAIN sequence.audio) =>
            call.ret[1][2] = HeldAt(sequence.audio[call.name][2], call.time, TRUE)

\* C12: get_despawn is a pure, monotone predicate: it answers true exactly
\* when a despawn time d is recorded for the name and t >= d; a call, however
\* often repeated, leaves the sequencer as it was; and after a true answer at
\* t every later call for that name with t' >= t answers true.
C12_DespawnPureMonotone ==
    /\ [](call.fn = "get_despawn" =>
            (call.ret <=> (/\ call.name \in DOMAIN sequence.despawn
                           /\ call.time >= sequence.despawn[call.name])))
    /\ [][call'.fn = "get_despawn" => sequence' = sequence]_vars
    /\ [][(/\ call.fn = "get_despawn"
           /\ call'.fn = "get_despawn"
           /\ call'.name = call.name
           /\ call'.time >= call.time
           /\ call.ret) => call'.ret]_vars

\* a recorded despawn time queried strictly after it
C12_Witness ==
    /\ call.fn = "get_despawn"
    /\ call.name \in DOMAIN sequence.despawn
    /\ sequence.despawn[call.name] > 0
    /\ call.time > sequence.despawn[call.name]
    /\ call.ret

(***************************************************************************)
(* Properties of the cue compiler (checked under SpecCompile).             *)
(***************************************************************************)
Compiled == call.fn = "setup_anim"

\* the sum of the Tick deltas before position i of the list
RECURSIVE ClockAt(_, _)
ClockAt(cues, i) ==
    IF i <= 1 THEN 0
    ELSE ClockAt(cues, i - 1) + (IF cues[i - 1][1] = "Tick" THEN cues[i - 1][2] ELSE 0)

Channels == {"Tran", "Rot", "Vol", "Paused", "Flip", "Subtitle"}

\* cue sets a value of channel chan of entity name (subtitles have no name)
IsSet(cue, chan, name) ==
    cue[1] = chan /\ (chan = "Subtitle" \/ cue[2] = name)

SetValue(cue) == IF cue[1] = "Subtitle" THEN cue[2] ELSE cue[3]

\* the set-* cues of a channel whose value is still pending at the next Tick
\* or at the end of the list: no other set of the channel comes in between
Recorded(cues, chan, name) ==
    {i \in 1..Len(cues) :
        /\ IsSet(cues[i], chan, name)
        /\ ~\E j \in (i + 1)..Len(cues) :
                /\ IsSet(cues[j], chan, name)
                /\ \A k \in (i + 1)..(j - 1) : cues[k][1] # "Tick"}

\* the keyframes compiled for a channel of an entity
TrackIn(st, chan) ==
    CASE chan = "Tran" -> st.pos_frames
      [] chan = "Rot" -> st.rot_frames
      [] chan = "Vol" -> st.vol_cues
      [] chan = "Paused" -> st.play_cues
      [] chan = "Flip" -> st.flip_cues
      [] chan = "Subtitle" -> st.sub_cues

DespawnCues(cues, name) ==
    {i \in 1..Len(cues) : cues[i][1] = "Despawn" /\ cues[i][2] = name}

TimedBySumOfTicks(cues, track, rec) ==
    /\ Len(track) = Cardinality(rec)
    /\ \A i \in rec :
            track[Cardinality({j \in rec : j <= i})] = <<ClockAt(cues, i), SetValue(cues[i])>>

TranExample ==
    <<<<"Tran", "a", <<1, 2, 0>>>>, <<"Tick", 1>>, <<"Tran", "a", <<3, 4, 0>>>>, <<"Tick", 1>>>>

\* C13: every keyframe of every channel of every entity is the value of a
\* set-* cue at the sum of the Tick deltas before that cue (0 before the first
\* Tick), in list order; the despawn time of an entity is that sum at its
\* Despawn cue; [Tran(a,1,2), Tick(1), Tran(a,3,4), Tick(1)] gives the
\* position keyframes [(0,(1,2)), (1,(3,4))] and total duration 2.
C13_KeyframeAtSumOfTicks ==
    Compiled =>
        /\ \A name \in DOMAIN AnimRsc, chan \in Channels :
                TimedBySumOfTicks(call.ret.cues, TrackIn(call.ret.locals[name], chan),
                                  Recorded(call.ret.cues, chan, name))
        /\ \A name \in DOMAIN AnimRsc :
                IF DespawnCues(call.ret.cues, name) = {}
                THEN name \notin DOMAIN sequence.despawn
                ELSE /\ name \in DOMAIN sequence.despawn
                     /\ \E i \in DespawnCues(call.ret.cues, name) :
                            /\ \A j \in DespawnCues(call.ret.cues, name) : j <= i
                            /\ sequence.despawn[name] = ClockAt(call.ret.cues, i)
        /\ call.ret.cues = TranExample =>
                /\ call.ret.locals["a"].pos_frames = <<<<0, <<1, 2, 0>>>>, <<1, <<3, 4, 0>>>>>>
                /\ sequence.end = 2

\* the example list, compiled
C13_Witness ==
    /\ Compiled
    /\ call.ret.cues = TranExample
    /\ Len(call.ret.locals["a"].pos_frames) = 2
    /\ sequence.end = 2

\* the set-* cues of a channel that no Tick follows
PendingAtEnd(cues, chan, name) ==
    {i \in 1..Len(cues) :
        /\ IsSet(cues[i], chan, name)
        /\ \A k \in (i + 1)..Len(cues) : cues[k][1] # "Tick"}

FinalClock(cues) == ClockAt(cues, Len(cues) + 1)

LastIs(track, frame) == track # <<>> /\ track[Len(track)] = frame

\* C14: a set-* cue that no Tick follows is compiled all the same: the last
\* value set after the last Tick becomes the last keyframe of its track, at
\* the final clock value; the end of the sequence and the final clock of
\* every entity's loop are the sum of all Tick deltas of the list.
C14_PendingFlushedAtEnd ==
    Compiled =>
        /\ \A name \in DOMAIN AnimRsc, chan \in Channels :
            \A i \in PendingAtEnd(call.ret.cues, chan, name) :
                (\A j \in PendingAtEnd(call.ret.cues, chan, name) : j <= i) =>
                    LastIs(TrackIn(call.ret.locals[name], chan),
                           <<FinalClock(call.ret.cues), SetValue(call.ret.cues[i])>>)
        /\ sequence.end = FinalClock(call.ret.cues)
        /\ \A name \in DOMAIN AnimRsc : call.ret.locals[name].t = sequence.end

\* a volume set after the last Tick of a list of positive duration
C14_Witness ==
    /\ Compiled
    /\ Len(call.ret.cues) >= 2
    /\ call.ret.cues[Len(call.ret.cues)][1] = "Vol"
    /\ sequence.end > 0
    /\ "a" \in DOMAIN sequence.audio
    /\ LastIs(sequence.audio["a"][1], <<sequence.end, FInt(0)>>)

\* the pending slot of a channel
SlotIn(st, chan) ==
    CASE chan = "Tran" -> st.pos_next
      [] chan = "Rot" -> st.rot_next
      [] chan = "Vol" -> st.vol_next
      [] chan = "Paused" -> st.paused_next
      [] chan = "Flip" -> st.flip_next
      [] chan = "Subtitle" -> st.sub_next

\* the Tick cues of a list, and the last Tick before position k (0 if none)
TickAt(cues) == {k \in 1..Len(cues) : cues[k][1] = "Tick"}
TickBefore(cues, k) ==
    IF \E j \in TickAt(cues) : j < k
    THEN CHOOSE j \in TickAt(cues) : j < k /\ \A i \in TickAt(cues) : i < k => i <= j
    ELSE 0

\* the set-* cues of a channel between the Tick at k and the Tick before it
SetsBefore(cues, k, chan, name) ==
    {i \in (TickBefore(cues, k) + 1)..(k - 1) : IsSet(cues[i], chan, name)}

\* the loop locals of entity name after the first k cues
LocalsAfter(cues, k, name) == CueLoop(EntityLoopStart, SubSeq(cues, 1, k), 1, name)

IsPrefix(p, q) == Len(p) <= Len(q) /\ SubSeq(q, 1, Len(p)) = p

\* the Tick at k commits, for the several sets of the channel before it, one
\* keyframe: at the clock of that Tick, of the value set last
OneKeyframeOfLastSet(cues, k, chan, name) ==
    LET sets == SetsBefore(cues, k, chan, name)
        last == CHOOSE i \in sets : \A j \in sets : j <= i
        before == LocalsAfter(cues, TickBefore(cues, k), name)
        after == LocalsAfter(cues, k, name)
    IN  /\ TrackIn(after, chan) =
               Append(TrackIn(before, chan), <<ClockAt(cues, k), SetValue(cues[last])>>)
        /\ SlotIn(after, chan) = None
        /\ IsPrefix(TrackIn(after, chan), TrackIn(call.ret.locals[name], chan))

\* C32: last write wins: when several set-* cues of the same entity and
\* channel stand between two consecutive Tick cues, the Tick records exactly
\* one keyframe for that channel, at that clock value and of the value of the
\* last of them, and the pending slot is empty after the commit.
C32_LastWriteWins ==
    Compiled =>
        \A name \in DOMAIN AnimRsc, chan \in Channels :
            \A k \in TickAt(call.ret.cues) :
                Cardinality(SetsBefore(call.ret.cues, k, chan, name)) >= 2 =>
                    OneKeyframeOfLastSet(call.ret.cues, k, chan, name)

\* two positions set for "a" after a first Tick, and the second one kept
C32_Witness ==
    /\ Compiled
    /\ call.ret.cues = <<<<"Tick", 1>>, <<"Tran", "a", <<1, 2, 0>>>>,
                         <<"Tran", "a", <<3, 4, 0>>>>, <<"Tick", 1>>>>
    /\ call.ret.locals["a"].pos_frames = <<<<1, <<3, 4, 0>>>>>>
    /\ call.ret.locals["a"].pos_next = None

TickDeltas(cues) == {cues[i][2] : i \in {j \in 1..Len(cues) : cues[j][1] = "Tick"}}

\* C15: when no Tick delta of the list is negative, every track compiled
\* (position, rotation, volume, pause, flip, subtitle) has strictly
\* increasing keyframe times.
C15_TracksStrictlyIncreasing ==
    (Compiled /\ \A dt \in TickDeltas(call.ret.cues) : dt >= 0) =>
        \A name \in DOMAIN AnimRsc, chan \in Channels :
            StrictlyIncreasing(TrackIn(call.ret.locals[name], chan))

\* C16: the sequencer holds an entry for a channel of an entity only if a
\* keyframe was recorded for that channel: every stored volume track, pause
\* track and flip track is non-empty, and an entity without a cue for a
\* channel has no entry to sample for it.
C16_StoredTracksNonEmpty ==
    Compiled =>
        /\ \A name \in DOMAIN sequence.audio :
                /\ sequence.audio[name][1] # <<>>
                /\ sequence.audio[name][2] # <<>>
        /\ \A name \in DOMAIN sequence.flip : sequence.flip[name] # <<>>
        /\ \A name \in DOMAIN AnimRsc :
                /\ (/\ Recorded(call.ret.cues, "Vol", name) = {}
                    /\ Recorded(call.ret.cues, "Paused", name) = {}) =>
                        name \notin DOMAIN sequence.audio
                /\ Recorded(call.ret.cues, "Flip", name) = {} =>
                        name \notin DOMAIN sequence.flip

(***************************************************************************)
(* Properties of the cue player (checked under Spec).                      *)
(***************************************************************************)
Ticked == tick_log.kind \in {"sampled", "finished"}

\* C1 as stated: the tick whose clock advance first makes clock >= end
\* signals the transition and pushes no sampled value.
C1_SignalOnReachingEnd ==
    (/\ Ticked
     /\ tick_log.before < sequence.end
     /\ tick_log.before + tick_log.dt >= sequence.end) =>
        /\ tick_log.kind = "finished"
        /\ next_state = "Game"
        /\ tick_log.pushes = {}

\* C1 as amended: a tick signals the transition iff the clock was already
\* >= end when it started; a signalling tick pushes nothing and leaves the
\* clock alone; every other tick, the one that reaches end included, advances
\* the clock by dt, samples at the advanced clock and signals nothing.
C1_SignalOnTickAfterEnd ==
    Ticked =>
        /\ (tick_log.kind = "finished") <=> (tick_log.before >= sequence.end)
        /\ tick_log.kind = "finished" =>
              /\ next_state = "Game"
              /\ tick_log.pushes = {}
              /\ sequence.time = tick_log.before
        /\ tick_log.kind = "sampled" =>
              /\ next_state = "none"
              /\ sequence.time = tick_log.before + tick_log.dt
              /\ world.subtitle = get_subtitle(sequence, sequence.time)
              /\ \A name \in DOMAIN world.ents : ~get_despawn(sequence, name, sequence.time)

\* the tick that reaches end samples: it issues a despawn due at end
C1_Witness ==
    /\ tick_log.kind = "sampled"
    /\ tick_log.before < sequence.end
    /\ sequence.time >= sequence.end
    /\ \E name \in Names : <<"despawn", name>> \in tick_log.pushes
    /\ next_state = "none"

\* C2: Finished is terminal: once a tick has seen clock >= end, every later
\* tick with playing still true signals again, leaves the clock and the
\* presentation layer unchanged and pushes nothing.
C2_FinishedTerminal ==
    [][(/\ tick_log.kind # "none"
        /\ sequence.time >= sequence.end
        /\ sequence'.playing) =>
            /\ tick_log'.kind = "finished"
            /\ next_state' = "Game"
            /\ sequence'.time = sequence.time
            /\ tick_log'.pushes = {}
            /\ world' = world]_vars

\* a second signalling tick in a row, with a positive frame delta, on a
\* sequence that had something left to push
C2_Witness ==
    /\ tick_log.prev = "finished"
    /\ tick_log.kind = "finished"
    /\ tick_log.dt > 0
    /\ sequence.end > 0
    /\ DOMAIN sequence.audio # {}
    /\ world.ents["a"].sink

(***************************************************************************)
(* Properties of collide_push (checked under SpecPush).                    *)
(***************************************************************************)
Pushed == call.fn = "collide_push"
PushTile == TileBox(level.tiles[1])

\* the four axis pushes that separate the actor's box from the tile's
PushLt == FSub(PushTile.min[1], ActorBox(level).max[1])
PushRt == FSub(PushTile.max[1], ActorBox(level).min[1])
PushUp == FSub(PushTile.max[2], ActorBox(level).min[2])
PushDn == FSub(PushTile.min[2], ActorBox(level).max[2])

\* x is one of a and b and no other of the two has a smaller magnitude
IsSmallerOf(x, a, b) ==
    /\ x \in {a, b}
    /\ ~FLt(FAbs(a), FAbs(x))
    /\ ~FLt(FAbs(b), FAbs(x))

VerticalPush(vert, dampv) == <<V(FInt(0), vert), FALSE, dampv>>
HorizontalPush(horz) == <<V(horz, FInt(0)), TRUE, FALSE>>

ExampleBoxes ==
    /\ level.pos = VInt(0, 0)
    /\ level.half = VInt(25, 25)
    /\ level.tiles[1] = [center |-> VInt(0, -40), half |-> VInt(25, 25), col |-> "Square"]

\* C17: for a Square, with horz the smaller in magnitude of the left and
\* right pushes and vert the smaller of the up and down pushes, collide_push
\* returns (0, vert) with only the vertical-damping flag when |horz| > |vert|
\* and (horz, 0) with only the horizontal-damping flag otherwise; for the
\* actor box of centre (0,0), half (25,25) on a Square of centre (0,-40), half
\* (25,25), one resolution pass pushes by (0, 10) only, zeroes force.y and
\* leaves force.x as it was.
C17_SquareRule ==
    /\ (Pushed /\ call.chan = "Square") =>
            \E horz \in {PushLt, PushRt}, vert \in {PushUp, PushDn} :
                /\ IsSmallerOf(horz, PushLt, PushRt)
                /\ IsSmallerOf(vert, PushUp, PushDn)
                /\ call.ret = IF FLt(FAbs(vert), FAbs(horz))
                              THEN VerticalPush(vert, TRUE)
                              ELSE HorizontalPush(horz)
    /\ (Pushed /\ ExampleBoxes) => call.ret = VerticalPush(FInt(10), TRUE)
    /\ (call.fn = "resolve_pass" /\ ExampleBoxes) =>
            /\ call.ret.aabb = Aabb2dNew(VInt(0, 10), VInt(25, 25))
            /\ call.ret.pushes = 1
            /\ call.ret.force = V(level.force[1], FInt(0))

\* the pass over the example's boxes, with a force that has both components
C17_Witness ==
    /\ call.fn = "resolve_pass"
    /\ ExampleBoxes
    /\ level.force[1] # FInt(0)
    /\ level.force[2] # FInt(0)
    /\ call.ret.pushed
    /\ call.ret.force = V(level.force[1], FInt(0))

\* the magnitudes of the horizontal and of the vertical candidate
HorzMag == FMin(FAbs(PushLt), FAbs(PushRt))
VertMag == FMin(FAbs(PushUp), FAbs(PushDn))
SquareTie == Pushed /\ call.chan = "Square" /\ HorzMag = VertMag

\* C18 as stated: for a Square whose horizontal and vertical candidates have
\* equal magnitude, the vertical push is returned, with only the
\* vertical-damping flag.
C18_VerticalWinsTies ==
    SquareTie =>
        \E vert \in {PushUp, PushDn} :
            /\ IsSmallerOf(vert, PushUp, PushDn)
            /\ call.ret = VerticalPush(vert, TRUE)

\* C18 as amended: for a Square whose horizontal and vertical candidates have
\* equal magnitude, the horizontal push is returned, with only the
\* horizontal-damping flag.
C18_HorizontalWinsTies ==
    SquareTie =>
        \E horz \in {PushLt, PushRt} :
            /\ IsSmallerOf(horz, PushLt, PushRt)
            /\ call.ret = HorizontalPush(horz)

\* a Square overlapped by the same nonzero amount on both axes
C18_Witness ==
    /\ SquareTie
    /\ HorzMag # FInt(0)
    /\ call.ret[1][1] # FInt(0)
    /\ call.ret[1][2] = FInt(0)
    /\ call.ret[2]
    /\ ~call.ret[3]

\* the triangle shapes: the corner tested against the diagonal, the result
\* of pt_line_dist for it, and the horizontal and vertical candidates
LeftTriangle == call.chan \in {"StepL", "SlopeL"}
TriangleCorner ==
    IF LeftTriangle THEN ActorBox(level).min
    ELSE V(ActorBox(level).max[1], ActorBox(level).min[2])
TriangleDist == PtLineDist(LeftTriangle, TriangleCorner, PushTile)
HorzCandidate == SmallerAbs(PushLt, PushRt)
VertCandidate == SmallerAbs(PushDn, PushUp)
DiagCandidate ==
    DiagPush(FALSE, IF LeftTriangle THEN 1 ELSE -1,
             FMul(FAbs(TriangleDist[1]), Fin(1, 2)))[1]
InsideTriangle == Pushed /\ call.chan # "Square" /\ ~TriangleDist[2]

\* C19: for a triangle shape whose tested corner is not outside the
\* diagonal, the push returned is the horizontal candidate if |horizontal| is
\* smaller than both the diagonal distance and |vertical|; otherwise the
\* vertical candidate if |vertical| is smaller than the diagonal distance;
\* otherwise the diagonal push.
C19_TrianglePolicy ==
    InsideTriangle =>
        call.ret[1] =
            IF /\ LtDist(FAbs(HorzCandidate), TriangleDist[1])
               /\ FLt(FAbs(HorzCandidate), FAbs(VertCandidate))
            THEN V(HorzCandidate, FInt(0))
            ELSE IF LtDist(FAbs(VertCandidate), TriangleDist[1])
            THEN V(FInt(0), VertCandidate)
            ELSE DiagCandidate

StepPushed == Pushed /\ call.chan \in {"StepL", "StepR"} /\ call.ret[1] # VZero

\* C20: for StepL and StepR a nonzero push has the vertical-damping flag
\* exactly when it is the vertical or the diagonal candidate, and has the
\* horizontal-damping flag without the vertical one exactly when it is the
\* horizontal candidate.
C20_StepDamping ==
    StepPushed =>
        /\ call.ret[3] <=> (\/ call.ret[1] = V(FInt(0), VertCandidate)
                            \/ call.ret[1] = DiagCandidate)
        /\ (call.ret[2] /\ ~call.ret[3]) <=> (call.ret[1] = V(HorzCandidate, FInt(0)))

\* a step answering with its diagonal push
C20_Witness ==
    /\ StepPushed
    /\ call.ret[1] = DiagCandidate
    /\ call.ret[1][1] # FInt(0)
    /\ call.ret[3]
    /\ ~call.ret[2]

SlopePushed == Pushed /\ call.chan \in {"SlopeL", "SlopeR"}

\* C21: for SlopeL and SlopeR the vertical-damping flag is set only on the
\* vertical candidate pointing down (push.y <= 0), never together with the
\* horizontal-damping flag; a diagonal or a horizontal push against a slope
\* never carries it.
C21_SlopeDamping ==
    SlopePushed =>
        /\ call.ret[3] => /\ call.ret[1] = V(FInt(0), VertCandidate)
                          /\ FLe(call.ret[1][2], FInt(0))
                          /\ call.ret[1] # DiagCandidate
                          /\ ~call.ret[2]
        /\ (call.ret[1] # VZero /\ call.ret[1] = DiagCandidate) => ~call.ret[3]
        /\ (call.ret[1] # VZero /\ call.ret[1] = V(HorzCandidate, FInt(0))) => ~call.ret[3]

\* a slope hit from below answers with a damped push down
C21_Witness ==
    /\ SlopePushed
    /\ call.ret[3]
    /\ FLt(call.ret[1][2], FInt(0))

\* the actor's box lies on top of a SlopeR: the tested corner is not outside
\* the diagonal, the vertical candidate points up and is smaller in magnitude
\* than the horizontal candidate and than the distance to the diagonal
FlushOnSlopeR ==
    /\ call.fn \in {"collide_push", "resolve_pass"}
    /\ call.chan = "SlopeR"
    /\ ~TriangleDist[2]
    /\ FLt(FInt(0), VertCandidate)
    /\ FLt(FAbs(VertCandidate), FAbs(HorzCandidate))
    /\ LtDist(FAbs(VertCandidate), TriangleDist[1])

\* C22: a box lying on top of a SlopeR gets the purely vertical upward push
\* with the vertical-damping flag, and the resolution pass zeroes force.y.
C22_FlushLandingOnSlope ==
    FlushOnSlopeR =>
        /\ call.fn = "collide_push" => call.ret = VerticalPush(VertCandidate, TRUE)
        /\ call.fn = "resolve_pass" => call.ret.force[2] = FInt(0)

\* the box mirrored about the vertical line x = axis, and a result of
\* collide_push mirrored in x
MirrorBox(b, axis) ==
    [min |-> V(FSub(FMul(FInt(2), axis), b.max[1]), b.min[2]),
     max |-> V(FSub(FMul(FInt(2), axis), b.min[1]), b.max[2])]
MirrorPush(r) == <<V(FNeg(r[1][1]), r[1][2]), r[2], r[3]>>
LeftOf(col) == IF col = "StepR" THEN "StepL" ELSE "SlopeL"

\* C23: the result for StepR (SlopeR) is the x-mirror of the result for StepL
\* (SlopeL) on the moving box mirrored about the vertical centre line of the
\* static box: push.x negated, push.y and both flags the same.
C23_MirrorSymmetry ==
    (Pushed /\ call.chan \in {"StepR", "SlopeR"}) =>
        call.ret = MirrorPush(collide_push(MirrorBox(ActorBox(level), Center(PushTile)[1]),
                                           LeftOf(call.chan), PushTile))

ZeroAreaTile == level.tiles[1].half = VZero
CoincidentBoxes == level.tiles[1].center = level.pos /\ level.tiles[1].half = level.half

\* C24: for a static box of no area, and for a static box that coincides
\* with the moving box, collide_push returns the zero vector whatever the
\* shape.
C24_DegenerateZeroPush ==
    (Pushed /\ (ZeroAreaTile \/ CoincidentBoxes)) => call.ret[1] = VZero

\* the tested corner relative to the centre of the static box
CornerFromCentre == VSub(TriangleCorner, Center(PushTile))

\* the corner lies strictly on the side of the diagonal away from the solid
\* part: above the line of slope -1 (left shapes) or +1 (right shapes)
OutsideDiagonal ==
    IF LeftTriangle
    THEN FLt(FNeg(CornerFromCentre[1]), CornerFromCentre[2])
    ELSE FLt(CornerFromCentre[1], CornerFromCentre[2])

\* C33: for StepL / SlopeL the tested corner is the moving box's bottom-left
\* corner p and the line passes through the static box centre a with slope
\* -1; when (p-a).y > -(p-a).x the result is the zero push with both damping
\* flags false; StepR / SlopeR do the same with the bottom-right corner and
\* the slope +1 line ((p-a).y > (p-a).x).
C33_OutsideDiagonalZeroPush ==
    (Pushed /\ call.chan # "Square" /\ OutsideDiagonal) =>
        call.ret = <<VZero, FALSE, FALSE>>

\* a box that overlaps the box of a right step with its bottom-right corner
\* above the diagonal
C33_Witness ==
    /\ Pushed /\ call.chan = "StepR"
    /\ OutsideDiagonal
    /\ FLt(CornerFromCentre[1], FInt(0)) /\ FLt(FInt(0), CornerFromCentre[2])
    /\ call.ret = <<VZero, FALSE, FALSE>>

\* the moving box translated by the push returned
MovedBox == [min |-> VAdd(ActorBox(level).min, call.ret[1]),
             max |-> VAdd(ActorBox(level).max, call.ret[1])]

\* boxes b and o share no area
NoAreaOverlap(b, o) ==
    ~(/\ FLt(b.min[1], o.max[1]) /\ FLt(o.min[1], b.max[1])
      /\ FLt(b.min[2], o.max[2]) /\ FLt(o.min[2], b.max[2]))

\* the tested corner of the moved box relative to the centre of the static
\* box, and its offset across the diagonal (positive outside)
MovedCorner == VSub(VAdd(TriangleCorner, call.ret[1]), Center(PushTile))
MovedAcross ==
    IF LeftTriangle THEN FAdd(MovedCorner[1], MovedCorner[2])
    ELSE FSub(MovedCorner[2], MovedCorner[1])

\* C37: translating the moving box by a nonzero push returned by
\* collide_push leaves it not penetrating the static shape: for Square the
\* boxes share no area, for the step and slope shapes either the boxes share
\* no area or the tested corner lies on or outside the diagonal, and after a
\* diagonal push exactly on it.
C37_PushSeparates ==
    (Pushed /\ call.ret[1] # VZero) =>
        /\ call.chan = "Square" => NoAreaOverlap(MovedBox, PushTile)
        /\ call.chan # "Square" =>
                /\ NoAreaOverlap(MovedBox, PushTile) \/ FGe(MovedAcross, FInt(0))
                /\ (call.ret[1][1] # FInt(0) /\ call.ret[1][2] # FInt(0)) =>
                        MovedAcross = FInt(0)

\* a diagonal push off a slope, after which the boxes still share area
C37_Witness ==
    /\ Pushed /\ call.chan = "SlopeL"
    /\ call.ret[1][1] # FInt(0) /\ call.ret[1][2] # FInt(0)
    /\ ~NoAreaOverlap(MovedBox, PushTile)
    /\ MovedAcross = FInt(0)

\* the pass of the solver over the one tile applied a push: the result of
\* collide_push for the box and the force the pass started with
PassPushed == call.fn = "resolve_pass" /\ call.ret.pushes = 1
PassPush == collide_push(ActorBox(level), level.tiles[1].col, PushTile)
Sign(x) == IF FLt(x, FInt(0)) THEN -1 ELSE IF FLt(FInt(0), x) THEN 1 ELSE 0

\* C27: immediately after a push that carries the vertical-damping flag
\* force.y is 0; immediately after a push that carries the
\* horizontal-damping flag force.x is 0 if the sign of push.x differs from
\* the sign of force.x and unchanged otherwise; a push with neither flag
\* leaves the force unchanged.
C27_ForceDamping ==
    PassPushed =>
        /\ PassPush[3] => call.ret.force[2] = FInt(0)
        /\ PassPush[2] =>
                call.ret.force[1] = IF Sign(PassPush[1][1]) # Sign(level.force[1])
                                    THEN FInt(0) ELSE level.force[1]
        /\ (~PassPush[2] /\ ~PassPush[3]) => call.ret.force = level.force

\* a horizontally damping push against the force (force.x zeroed, force.y
\* kept)
C27_Witness ==
    /\ PassPushed /\ PassPush[2]
    /\ Sign(PassPush[1][1]) = -1 /\ Sign(level.force[1]) = 1
    /\ call.ret.force = V(FInt(0), level.force[2])

\* C28: a tick executed while the playing flag is false leaves the whole
\* sequencer unchanged (the clock is not advanced), signals no transition
\* and pushes nothing to the presentation layer.
C28_HaltedTickChangesNothing ==
    [][~sequence.playing =>
          /\ sequence' = sequence
          /\ world' = world
          /\ next_state' = next_state
          /\ tick_log'.kind = "off" /\ tick_log'.pushes = {}]_vars

\* a tick of positive delta on a halted sequencer that has cues to play
C28_Witness ==
    /\ tick_log.kind = "off" /\ tick_log.dt > 0
    /\ ~sequence.playing /\ sequence.time = 0 /\ sequence.end > 0
    /\ sequence.despawn # EmptyMap
    /\ next_state = "none"

\* the Playing state: the flag is set and the clock has not reached the end
Playing == sequence.playing /\ sequence.time < sequence.end

\* C29: over any sequence of ticks with dt >= 0 the clock never decreases,
\* it increases by exactly dt on every tick taken in the Playing state, and
\* no tick resets it to an earlier value.
C29_ClockMonotonic ==
    [][/\ sequence'.time >= sequence.time
       /\ tick_log'.before = sequence.time
       /\ Playing => sequence'.time = sequence.time + tick_log'.dt]_vars

\* a second sampling tick in a row, of positive delta
C29_Witness ==
    /\ tick_log.kind = "sampled" /\ tick_log.prev = "sampled"
    /\ tick_log.dt > 0 /\ tick_log.before > 0
    /\ sequence.time = tick_log.before + tick_log.dt

\* C30: starting from clock 0 with playing = true and a finite end, a
\* player that is ticked again and again with dt bounded below by a positive
\* constant eventually signals the transition to AppState::Game.
C30_EventuallyFinished == <>(next_state = "Game")

\* the transition signalled for a sequence of positive length, once the
\* clock has run from 0 past its end
C30_Witness ==
    /\ next_state = "Game" /\ tick_log.kind = "finished"
    /\ sequence.playing /\ sequence.end >= 2
    /\ sequence.time >= sequence.end /\ tick_log.before = sequence.time

\* the names the sequencer holds a track or a despawn time for
TrackedNames == DOMAIN sequence.audio \cup DOMAIN sequence.despawn \cup DOMAIN sequence.flip

\* entity e of name n carries, after the tick at clock t, the values the
\* sequencer samples for it: volume and pause state if it has an audio sink,
\* flip_x if it has a sprite; a component it lacks is skipped
ReceivedSamples(n, e, after, t) ==
    /\ (e.sink /\ get_audio(sequence, n, t) # None) =>
            /\ after.volume = get_audio(sequence, n, t)[1][1]
            /\ after.paused = get_audio(sequence, n, t)[1][2]
    /\ (~e.sink \/ get_audio(sequence, n, t) = None) =>
            /\ after.volume = e.volume /\ after.paused = e.paused
    /\ (e.sprite /\ get_flip(sequence, n, t) # None) =>
            after.flip_x = get_flip(sequence, n, t)[1]
    /\ (~e.sprite \/ get_flip(sequence, n, t) = None) => after.flip_x = e.flip_x

\* C31: a missing target is tolerated: on a tick where a tracked name has no
\* live entity (already despawned), or the entity lacks an audio sink or a
\* sprite, the tick completes, the clock advances by dt, and every other
\* tracked entity receives its sampled values.
C31_MissingTargetTolerated ==
    [][Playing =>
          /\ tick_log'.kind = "sampled"
          /\ sequence'.time = sequence.time + tick_log'.dt
          /\ \A n \in DOMAIN world.ents :
                IF get_despawn(sequence, n, sequence'.time)
                THEN <<"despawn", n>> \in tick_log'.pushes
                ELSE /\ n \in DOMAIN world'.ents
                     /\ ReceivedSamples(n, world.ents[n], world'.ents[n], sequence'.time)]_vars

\* a tick that finds the tracked "a" despawned and flips the sprite of "b"
C31_Witness ==
    /\ tick_log.kind = "sampled"
    /\ "a" \in TrackedNames /\ "a" \notin DOMAIN world.ents
    /\ "b" \in DOMAIN world.ents /\ world.ents["b"].flip_x
    /\ <<"flip", "b", TRUE>> \in tick_log.pushes
    /\ tick_log.prev = "sampled"

\* the live entities the sequencer holds a despawn time of at most t for
DueAt(t) ==
    {n \in DOMAIN world.ents \cap DOMAIN sequence.despawn : sequence.despawn[n] <= t}

\* the tick just run issued a despawn for entity n
DespawnIssued(n) == <<"despawn", n>> \in tick_log.pushes

\* a despawn is issued only by a tick whose advanced clock has reached the
\* recorded time, and by the first such tick
IssuedOnTime ==
    \A n \in DOMAIN AnimRsc :
        DespawnIssued(n) =>
            /\ n \in DOMAIN sequence.despawn
            /\ sequence.time >= sequence.despawn[n]
            /\ tick_log.before < sequence.despawn[n] \/ tick_log.prev = "none"

\* C40: despawn cues are applied on time and never lost: with frame deltas
\* above 0, a live entity with a recorded despawn time d <= end is issued a
\* despawn on the first tick whose advanced clock is >= d, never on a tick
\* whose clock is < d, and that tick comes before the player stops sampling
\* at the end of the sequence.
C40_DespawnOnTime ==
    /\ IssuedOnTime
    /\ tick_log.kind = "sampled" => DueAt(sequence.time) = {}
    /\ (tick_log.kind = "finished" /\ tick_log.dt > 0) => DueAt(sequence.end) = {}

(***************************************************************************)
(* Properties of a physics sub-step (checked under SpecSubStep).           *)
(***************************************************************************)
SubStepped == call.fn = "sub_step"

\* the tiles whose box intersects box b
Touching(b) == {i \in 1..Len(level.tiles) : Intersects(b, TileBox(level.tiles[i]))}

\* cands holds one candidate for each tile that intersects b, with the
\* distance of the centres measured from b
GatheredFrom(cands, b) ==
    /\ Len(cands) = Cardinality(Touching(b))
    /\ \A i \in Touching(b) : \E j \in 1..Len(cands) :
            /\ cands[j].col_aabb = TileBox(level.tiles[i])
            /\ cands[j].col = level.tiles[i].col
    /\ \A j \in 1..Len(cands) : cands[j].dist = VSub(Center(cands[j].col_aabb), Center(b))

ClosestFirst(cands) ==
    \A i \in 1..Len(cands), j \in 1..Len(cands) :
        i < j => ~LengthSquaredLt(cands[j].dist, cands[i].dist)

\* one pass over cands from the first to the last, a candidate that does not
\* intersect the box any more skipped
RECURSIVE PassInOrder(_, _, _)
PassInOrder(st, cands, ctl) ==
    IF cands = <<>> THEN st
    ELSE PassInOrder(IF Intersects(st.aabb, Head(cands).col_aabb)
                     THEN ApplyPush(st, ctl, collide_push(st.aabb, Head(cands).col,
                                                          Head(cands).col_aabb))
                     ELSE st,
                     Tail(cands), ctl)

\* up to n such passes over the same list, as long as the last one pushed
RECURSIVE PassesInOrder(_, _, _, _)
PassesInOrder(st, cands, ctl, n) ==
    IF n = 0 THEN st
    ELSE IF PassInOrder([st EXCEPT !.pushed = FALSE], cands, ctl).pushed
    THEN PassesInOrder(PassInOrder([st EXCEPT !.pushed = FALSE], cands, ctl), cands, ctl, n - 1)
    ELSE PassInOrder([st EXCEPT !.pushed = FALSE], cands, ctl)

\* C34: the candidate list is gathered once, after the integration, from the
\* static boxes that intersect the integrated box, and every resolution pass
\* of the sub-step goes through it in non-decreasing order of the squared
\* centre distance measured at gather time, skipping the candidates that no
\* longer intersect the pushed box.
C34_ClosestFirstOrder ==
    SubStepped =>
        /\ call.ret.box = Aabb2dNew(VAdd(VAdd(level.pos, level.ctl),
                                         VAdd(level.force, Gravity)), level.half)
        /\ GatheredFrom(call.ret.cands, call.ret.box)
        /\ ClosestFirst(call.ret.cands)
        /\ call.ret.end.aabb =
               PassesInOrder(Integrated(level), call.ret.cands, level.ctl, ResolveTries).aabb
        /\ call.ret.end.force =
               PassesInOrder(Integrated(level), call.ret.cands, level.ctl, ResolveTries).force

\* two candidates pushed, the closest one being the second of the query
C34_Witness ==
    /\ SubStepped
    /\ Len(call.ret.cands) = 2
    /\ call.ret.cands[1].col_aabb = TileBox(level.tiles[2])
    /\ LengthSquaredLt(call.ret.cands[1].dist, call.ret.cands[2].dist)
    /\ call.ret.pass.pushes = 2

\* the bottom corner of box b that collide_push tests against triangle tile
\* t, relative to the centre of t, and whether it lies on or outside the
\* diagonal
CornerOf(b, t) ==
    VSub(IF t.col \in {"StepL", "SlopeL"} THEN b.min ELSE V(b.max[1], b.min[2]), t.center)
OnOrOutside(b, t) ==
    IF t.col \in {"StepL", "SlopeL"}
    THEN FGe(FAdd(CornerOf(b, t)[1], CornerOf(b, t)[2]), FInt(0))
    ELSE FGe(CornerOf(b, t)[2], CornerOf(b, t)[1])

\* box b penetrates tile t
Penetrates(b, t) ==
    /\ ~NoAreaOverlap(b, TileBox(t))
    /\ t.col # "Square" => ~OnOrOutside(b, t)

NonPenetratingStart ==
    \A i \in 1..Len(level.tiles) : ~Penetrates(ActorBox(level), level.tiles[i])

\* C38: starting from a non-penetrating actor position among non-overlapping
\* grid tiles, at the end of a physics sub-step the actor box shares no area
\* with any Square static box, and no candidate of that sub-step would still
\* yield a nonzero push.
C38_ThreePassesEnough ==
    (SubStepped /\ NonPenetratingStart) =>
        /\ \A i \in 1..Len(level.tiles) :
                level.tiles[i].col = "Square" =>
                    NoAreaOverlap(call.ret.end.aabb, TileBox(level.tiles[i]))
        /\ \A j \in 1..Len(call.ret.cands) :
                Intersects(call.ret.end.aabb, call.ret.cands[j].col_aabb) =>
                    collide_push(call.ret.end.aabb, call.ret.cands[j].col,
                                 call.ret.cands[j].col_aabb)[1] = VZero

(***************************************************************************)
(* Properties of the physics solver (SpecSolver, SpecClock, SpecSplit).    *)
(***************************************************************************)
SolverTicked == solver_log.kind # "none"

\* the actor is at rest when check_collide starts: `v.ctl + v.force == ZERO`
AtRest == VAdd(level.ctl, level.force) = VZero

\* C25: when control + force is zero at the start of check_collide, the
\* tick sets the output displacement to (0, 0) and changes nothing else
\* (force, leftover, box, climb: no gravity is applied), so that the
\* update_movement that follows leaves the actor where it is, also with no
\* tile below it.
C25_IdleTickOnlyClearsOut ==
    [][/\ (pc.sys = "check_collide" /\ AtRest) =>
            /\ level' = [level EXCEPT !.out = VZero]
            /\ solver_log'.kind = "idle"
       /\ (pc.sys = "update_movement" /\ solver_log.kind = "idle") =>
            /\ level'.pos = level.pos
            /\ level'.force = level.force
            /\ level'.rem = level.rem]_vars

\* an idle tick over no tile at all, on a frame long enough for a sub-step,
\* and the actor still at the origin after the update_movement of that frame
C25_Witness ==
    /\ solver_log.kind = "idle"
    /\ FLt(FInt(1), FAdd(solver_log.before, solver_log.d))
    /\ level.tiles = <<>>
    /\ pc.sys = "check_kbd" /\ pc.frame >= 1
    /\ level.pos = VZero /\ level.force = VZero

\* C26: the climb flag is never sticky: after every solver tick, the idle
\* early return and a tick of no sub-step included, climb is true only if
\* during that same tick a vertically damping push with negative y was
\* applied while control.y > 0.
C26_ClimbNeverSticky ==
    (pc.sys = "update_movement" /\ level.climb) =>
        /\ solver_log.kind = "stepped"
        /\ solver_log.pushes > 0
        /\ FLt(FInt(0), level.ctl[2])

\* the smallest integer not below the finite x
FCeil(x) == -((-x.n) \div x.d)

\* max(0, ceil(b) - 1)
SubStepsFor(b) == IF FCeil(b) - 1 > 0 THEN FCeil(b) - 1 ELSE 0

\* C35: every solver tick, with the budget b = leftover + dt_real * 60,
\* executes exactly max(0, ceil(b) - 1) sub-steps (a budget of exactly 1 runs
\* none), and each sub-step applies at most 3 * (number of candidates)
\* pushes.
C35_SubStepCount ==
    SolverTicked =>
        /\ solver_log.steps = SubStepsFor(FAdd(solver_log.before, solver_log.d))
        /\ solver_log.pushes <= ResolveTries * Len(level.tiles) * solver_log.steps

\* the loop state after n iterations of `while dt > 1.` from st
RECURSIVE AfterSubSteps(_, _, _)
AfterSubSteps(st, lv, n) == IF n = 0 THEN st ELSE AfterSubSteps(SubStep(st, lv), lv, n - 1)

\* the centre of the actor's box after the n sub-steps of a tick started in
\* scene lv
CentreAfter(lv, n) ==
    Center(AfterSubSteps([PassStart(lv) EXCEPT !.dt = FInt(n + 1)], lv, n).aabb)

C4_SubTickTimeNeverDropped ==
    SolverTicked =>
        level.rem = FSub(FAdd(solver_log.before, solver_log.d), FInt(solver_log.steps))

C3_FrameRateIndependent ==
    (twin # None /\ Unwrap(twin).fresh) =>
        /\ Unwrap(twin).coarse = Unwrap(twin).fine
        /\ Unwrap(twin).lv.force = level.force
        /\ Unwrap(twin).lv.rem = level.rem

\* pushes along x offered to the horizontal damping
DampPushes == {VInt(-3, 0), VInt(3, 0), VZero}

\* C39: in every state reached from the spawned actor by check_kbd,
\* check_collide and update_movement, force.x is 0 and force.y is at most
\* 0, and the horizontal damping of any push leaves the force as it is.
C39_ForceOnlyGravity ==
    /\ level.force[1] = FInt(0)
    /\ FLe(level.force[2], FInt(0))
    /\ \A push \in DampPushes : DampH(level.force, TRUE, push) = level.force

\* a check_collide of one sub-step that walked right into a wall and was
\* pushed back along x, the actor still falling
C39_Witness ==
    /\ solver_log.kind = "stepped"
    /\ solver_log.steps = 1
    /\ solver_log.pushes > 0
    /\ level.ctl = VInt(5, 0)
    /\ FLt(level.out[1], FInt(5))
    /\ level.force[1] = FInt(0)
    /\ FLt(level.force[2], FInt(0))

====
